---- MODULE Spec2Model ----
(***************************************************************************)
(* Transaction-time versioning layer of the document store: the document   *)
(* transform of db/ttime.cpp and the update executor of db/ops/update.cpp. *)
(*                                                                         *)
(* A document is a sequence of fields <<name, value>>.  A value is a       *)
(* tagged pair: <<"null",0>>, <<"int",n>>, <<"ts",<<sec,inc>>>>,           *)
(* <<"oid",n>>, <<"str",len>>, <<"obj",doc>>; <<"eoo",0>> is the           *)
(* end-of-object element that a failed field lookup returns.               *)
(***************************************************************************)
EXTENDS Integers, Sequences, FiniteSets, TLC

----------------------------------------------------------------------------
(* Bounds of the model *)

\* the clock issues seconds 1..MaxSec and counters 1..MaxInc
MaxSec == 2
MaxInc == 2
\* disk locations 1..MaxSlots
MaxSlots == 3
\* user ids 1..MaxUid, payload values 0..MaxA
MaxUid == 1
MaxA == 0
\* $inc is applied while the field stays within MaxInt
MaxInt == 2

----------------------------------------------------------------------------
(* BSON values and elements *)

Null == <<"null", 0>>
EOO == <<"eoo", 0>>
NumberInt(n) == <<"int", n>>
TimestampVal(sec, inc) == <<"ts", <<sec, inc>>>>
OIDVal(n) == <<"oid", n>>
ObjVal(d) == <<"obj", d>>

BoolVal(b) == <<"bool", b>>
ArrVal(elems) == <<"arr", elems>>

isNull(v) == v[1] = "null"
eoo(v) == v[1] = "eoo"
isTimestamp(v) == v[1] = "ts"
isObject(v) == v[1] = "obj"
isArray(v) == v[1] = "arr"
\* BSONElement::isBoolean() && trueValue()
isTrue(v) == v = <<"bool", TRUE>>

\* the error document a uassert/massert leaves to the caller
Err(code) == << <<"$err", NumberInt(code)>> >>
IsErr(d) == Len(d) = 1 /\ d[1][1] = "$err"
ErrCode(d) == d[1][2][2]

FieldNames(obj) == {obj[i][1] : i \in 1..Len(obj)}

\* BSONObj::getField: the first element of that name, or EOO
getField(obj, name) ==
    IF name \in FieldNames(obj)
    THEN obj[CHOOSE i \in 1..Len(obj) :
                 obj[i][1] = name /\ \A j \in 1..(i-1) : obj[j][1] # name][2]
    ELSE EOO

\* BSONObj::getObjectField: the embedded object, or the empty object
getObjectField(obj, name) ==
    LET e == getField(obj, name) IN IF isObject(e) THEN e[2] ELSE <<>>

\* BSONObj::getFieldDotted for a name "left.right": the literal name first,
\* then the field right of the embedded object left
getFieldDotted(obj, full, left, right) ==
    LET e == getField(obj, full) IN
    IF ~eoo(e) THEN e
    ELSE LET sub == getObjectField(obj, left) IN
         IF sub = <<>> THEN EOO ELSE getField(sub, right)

\* BSONObjBuilder::appendElementsUnique: the elements of x whose name the
\* builder does not hold yet
appendElementsUnique(b, x) ==
    LET have == FieldNames(b) IN
    b \o SelectSeq(x, LAMBDA f : f[1] \notin have)

\* BSONObj::replaceTimestamp: the named field becomes the zero Timestamp
replaceTimestamp(obj, name) ==
    [i \in 1..Len(obj) |->
        IF obj[i][1] = name THEN <<name, TimestampVal(0, 0)>> ELSE obj[i]]

\* BSONObj::removeField
removeField(obj, name) == SelectSeq(obj, LAMBDA f : f[1] # name)

\* BSONObj::renameField: the named field gets the new name where it stands
renameField(obj, name, newName) ==
    [i \in 1..Len(obj) |-> IF obj[i][1] = name THEN <<newName, obj[i][2]>> ELSE obj[i]]

\* BSONObj::hasElement
hasElement(obj, name) == name \in FieldNames(obj)

\* BSONObjBuilder::appendTimestamp(name, time, inc): time is in milliseconds,
\* the stored seconds are time / 1000
appendTimestamp(time, inc) == TimestampVal(time \div 1000, inc)

\* BSONElement::timestampTime: the seconds as a millisecond date
timestampTime(v) == v[2][1] * 1000
timestampInc(v) == v[2][2]

\* BSONElementManipulator::initTimestamp: a zero Timestamp takes the clock's
\* value now, any other Timestamp stays
initTimestamp(v, now) ==
    IF v = TimestampVal(0, 0) THEN TimestampVal(now[1], now[2]) ELSE v

\* timestamps compare on (sec, inc)
TsLE(s, t) == s[1] < t[1] \/ (s[1] = t[1] /\ s[2] <= t[2])

----------------------------------------------------------------------------
(* db/ttime.cpp *)

HasTransactionStart(obj) ==
    ~eoo(getFieldDotted(obj, "_id.transaction_start", "_id", "transaction_start"))

\* wrapObjectId without the early return for a document in version shape
wrapObjectId_noShortcut(obj, val, inc, now, oid) ==
    LET idElem == getField(obj, "_id")
        temporalId ==
            << <<"_id", IF eoo(idElem) THEN OIDVal(oid) ELSE idElem>>,
               <<"transaction_start", initTimestamp(appendTimestamp(val, inc), now)>> >>
        bb == << <<"_id", ObjVal(temporalId)>>, <<"transaction_end", Null>> >>
    IN appendElementsUnique(bb, obj)

\* wrapObjectId that stamps the clock's value whatever start it is given
wrapObjectId_ignoreStart(obj, val, inc, now, oid) ==
    IF HasTransactionStart(obj) THEN obj
    ELSE LET idElem == getField(obj, "_id")
             temporalId ==
                 << <<"_id", IF eoo(idElem) THEN OIDVal(oid) ELSE idElem>>,
                    <<"transaction_start", TimestampVal(now[1], now[2])>> >>
             bb == << <<"_id", ObjVal(temporalId)>>, <<"transaction_end", Null>> >>
         IN appendElementsUnique(bb, obj)

\* wrapObjectId(obj, val, inc); now is what the clock returns if asked,
\* oid the identifier appendOID generates if asked
wrapObjectId(obj, val, inc, now, oid) ==
    IF HasTransactionStart(obj) THEN obj
    ELSE LET idElem == getField(obj, "_id")
             temporalId ==
                 << <<"_id", IF eoo(idElem) THEN OIDVal(oid) ELSE idElem>>,
                    <<"transaction_start", initTimestamp(appendTimestamp(val, inc), now)>> >>
             bb == << <<"_id", ObjVal(temporalId)>>, <<"transaction_end", Null>> >>
         IN appendElementsUnique(bb, obj)

\* whether wrapObjectId reads the clock / generates an identifier
wrapUsesClock(obj, val, inc) ==
    ~HasTransactionStart(obj) /\ appendTimestamp(val, inc) = TimestampVal(0, 0)
wrapUsesOID(obj) == ~HasTransactionStart(obj) /\ eoo(getField(obj, "_id"))

\* addCurrentVersionCriterion without the uassert on a pinned transaction_end
addCurrentVersionCriterion_noCheck(pattern) ==
    appendElementsUnique(<< <<"transaction_end", Null>> >>, pattern)

\* addCurrentVersionCriterion that adds no criterion
addCurrentVersionCriterion_noCriterion(pattern) ==
    LET endTimestamp == getField(pattern, "transaction_end") IN
    IF ~(eoo(endTimestamp) \/ isNull(endTimestamp)) THEN Err(999145)
    ELSE pattern

addCurrentVersionCriterion(pattern) ==
    LET endTimestamp == getField(pattern, "transaction_end") IN
    IF ~(eoo(endTimestamp) \/ isNull(endTimestamp)) THEN Err(999145)
    ELSE appendElementsUnique(<< <<"transaction_end", Null>> >>, pattern)

\* setTransactionEndTimestamp that stamps a historic version again
setTransactionEndTimestamp_noHistoricCheck(obj, now) ==
    LET endTimestamp == getField(obj, "transaction_end") IN
    IF eoo(endTimestamp) THEN Err(999146)
    ELSE [i \in 1..Len(obj) |->
            IF obj[i][1] = "transaction_end"
            THEN <<"transaction_end", TimestampVal(now[1], now[2])>> ELSE obj[i]]

\* setTransactionEndTimestamp that leaves transaction_end as it is
setTransactionEndTimestamp_noStamp(obj, now) ==
    LET endTimestamp == getField(obj, "transaction_end") IN
    IF eoo(endTimestamp) THEN Err(999146)
    ELSE IF ~isNull(endTimestamp) THEN Err(999147)
    ELSE obj

setTransactionEndTimestamp(obj, now) ==
    LET endTimestamp == getField(obj, "transaction_end") IN
    IF eoo(endTimestamp) THEN Err(999146)
    ELSE IF ~isNull(endTimestamp) THEN Err(999147)
    ELSE LET o2 == replaceTimestamp(obj, "transaction_end") IN
         [i \in 1..Len(o2) |->
            IF o2[i][1] = "transaction_end" /\ \A j \in 1..(i-1) : o2[j][1] # "transaction_end"
            THEN <<"transaction_end", initTimestamp(o2[i][2], now)>> ELSE o2[i]]

\* setTransactionStartTimestamp that lets the _id of the new document win
setTransactionStartTimestamp_ownId(newObj, prevObj, now, oid) ==
    LET endTimestamp == getField(prevObj, "transaction_end") IN
    IF eoo(endTimestamp) THEN Err(999148)
    ELSE IF ~isTimestamp(endTimestamp) THEN Err(999149)
    ELSE LET idValue == getFieldDotted(prevObj, "_id._id", "_id", "_id")
             bb == IF eoo(idValue) THEN <<>> ELSE << <<"_id", idValue>> >>
         IN wrapObjectId(appendElementsUnique(newObj, bb),
                         timestampTime(endTimestamp), timestampInc(endTimestamp), now, oid)

setTransactionStartTimestamp(newObj, prevObj, now, oid) ==
    LET endTimestamp == getField(prevObj, "transaction_end") IN
    IF eoo(endTimestamp) THEN Err(999148)
    ELSE IF ~isTimestamp(endTimestamp) THEN Err(999149)
    ELSE LET endTimestampTime == timestampTime(endTimestamp)
             endTimestampInc == timestampInc(endTimestamp)
             idValue == getFieldDotted(prevObj, "_id._id", "_id", "_id")
             bb == IF eoo(idValue) THEN <<>> ELSE << <<"_id", idValue>> >>
         IN wrapObjectId(appendElementsUnique(bb, newObj),
                         endTimestampTime, endTimestampInc, now, oid)

\* ttime.cpp 116-136: the builder after the from-part of a time-range query
addFromCondition(bb, from) ==
    IF ~isNull(from)
    THEN Append(bb, <<"$or", ArrVal(<< ObjVal(<< <<"transaction_end", Null>> >>),
                                       ObjVal(<< <<"transaction_end",
                                                   ObjVal(<< <<"$gte", from>> >>)>> >>) >>)>>)
    ELSE bb

\* ttime.cpp 141-150: the builder after the to-part of a time-range query
addToCondition(bb, to) ==
    IF ~isNull(to)
    THEN Append(bb, <<"_id.transaction_start", ObjVal(<< <<"$lte", to>> >>)>>)
    ELSE bb

\* the current branch that forgets the criterion
currentBranch_noCriterion(query, current) ==
    IF ~isTrue(current) THEN Err(999150) ELSE removeField(query, "transaction")

\* ttime.cpp 162-169: transaction.current is present
currentBranch(query, current) ==
    IF ~isTrue(current) THEN Err(999150)
    ELSE LET q == addCurrentVersionCriterion(query) IN
         IF IsErr(q) THEN q ELSE removeField(q, "transaction")

\* the inrange branch without the check of the number of elements
inrangeBranch_noSizeCheck(query, inrangeElem) ==
    IF ~isArray(inrangeElem) THEN Err(1234000)
    ELSE IF Len(inrangeElem[2]) < 2
    THEN removeField(query, "transaction")
    ELSE removeField(
            appendElementsUnique(
                addToCondition(addFromCondition(<<>>, inrangeElem[2][1]), inrangeElem[2][2]),
                query),
            "transaction")

\* ttime.cpp 171-193: transaction.inrange is present
inrangeBranch(query, inrangeElem) ==
    IF ~isArray(inrangeElem) THEN Err(1234000)
    ELSE IF Len(inrangeElem[2]) # 2 THEN Err(1234001)
    ELSE IF isNull(inrangeElem[2][1]) /\ isNull(inrangeElem[2][2]) THEN Err(1234002)
    ELSE removeField(
            appendElementsUnique(
                addToCondition(addFromCondition(<<>>, inrangeElem[2][1]), inrangeElem[2][2]),
                query),
            "transaction")

\* the all branch that leaves the transaction key in the selector
allBranch_keepKey(query, allElem) ==
    IF ~isTrue(allElem) THEN Err(999151) ELSE query

\* the all branch that asks for current versions
allBranch_currentOnly(query, allElem) ==
    IF ~isTrue(allElem) THEN Err(999151)
    ELSE removeField(appendElementsUnique(<< <<"transaction_end", Null>> >>, query),
                     "transaction")

\* ttime.cpp 195-201: transaction.all is present
allBranch(query, allElem) ==
    IF ~isTrue(allElem) THEN Err(999151) ELSE removeField(query, "transaction")

\* ttime.cpp 203-218: transaction.at is present
atBranch(query, atElem) ==
    removeField(
        appendElementsUnique(addToCondition(addFromCondition(<<>>, atElem), atElem), query),
        "transaction")

\* ttime.cpp 152-222
addTemporalCriteria(query) ==
    IF ~hasElement(query, "transaction") THEN addCurrentVersionCriterion(query)
    ELSE IF ~eoo(getFieldDotted(query, "transaction.current", "transaction", "current"))
    THEN currentBranch(query,
                       getFieldDotted(query, "transaction.current", "transaction", "current"))
    ELSE IF ~eoo(getFieldDotted(query, "transaction.inrange", "transaction", "inrange"))
    THEN inrangeBranch(query,
                       getFieldDotted(query, "transaction.inrange", "transaction", "inrange"))
    ELSE IF ~eoo(getFieldDotted(query, "transaction.all", "transaction", "all"))
    THEN allBranch(query, getFieldDotted(query, "transaction.all", "transaction", "all"))
    ELSE IF ~eoo(getFieldDotted(query, "transaction.at", "transaction", "at"))
    THEN atBranch(query, getFieldDotted(query, "transaction.at", "transaction", "at"))
    ELSE Err(999152)

\* addTemporalOrder that puts the renamed key last
addTemporalOrder_last(order) ==
    IF eoo(getField(order, "transaction")) THEN order
    ELSE Append(removeField(order, "transaction"),
                <<"transaction_end", getField(order, "transaction")>>)

\* ttime.cpp 227-238
addTemporalOrder(order) ==
    IF eoo(getField(order, "transaction")) THEN order
    ELSE renameField(order, "transaction", "transaction_end")

\* a Date value: signed milliseconds
DateVal(ms) == <<"date", ms>>

\* floor(2^64 / 1000) mod 2^32
WrappedSecs == 1271310319

\* the seconds BSONObjBuilder::appendTimestamp(name, time, inc) stores when it
\* is handed the long long product 1000 * secs: the parameter is an unsigned
\* long long, so a negative product arrives as 2^64 + 1000 * secs, and the
\* quotient time / 1000 is kept in the 32 unsigned bits of the Timestamp.  For
\* -WrappedSecs <= secs < 0 that is
\*   ((2^64 + 1000 * secs) / 1000) mod 2^32 = WrappedSecs + secs.
unsignedSecs(secs) == IF secs >= 0 THEN secs ELSE WrappedSecs + secs

\* ttime.cpp 243-263.  The inner builder of the second disjunct is opened on
\* the finished builder of the first (254); both write to the one buffer of
\* the outermost builder, so the field lands in the second disjunct.
getTTLQuery(fieldName, expireField, nowMillis, nowSecs) ==
    LET date == << <<fieldName,
                     ObjVal(<< <<"$lt", DateVal(nowMillis - (1000 * expireField))>> >>)>> >>
        timestamp == << <<fieldName,
                          ObjVal(<< <<"$tlt",
                                      TimestampVal(unsignedSecs(nowSecs - expireField), 0)>> >>)>> >>
    IN << <<"$or", ArrVal(<< ObjVal(date), ObjVal(timestamp) >>)>> >>

\* BSONElement::isNumber
isNumber(v) == v[1] = "int"

\* BSONObj::replaceField: the object with the value of the field replaced
replaceField(obj, name, value) ==
    [i \in 1..Len(obj) |-> IF obj[i][1] = name THEN <<name, value>> ELSE obj[i]]

\* ttime.cpp 272-308
modifyTransactionTimeIndex(idx) ==
    LET key == getObjectField(idx, "key")
        transactionElem == getField(key, "transaction")
    IN IF ~eoo(getField(key, "transaction_end")) THEN idx
       ELSE IF eoo(transactionElem)
       THEN replaceField(idx, "key", ObjVal(<< <<"transaction_end", NumberInt(1)>> >> \o key))
       ELSE IF ~isNumber(transactionElem) THEN Err(999423)
       ELSE IF transactionElem[2] = 0
       THEN replaceField(idx, "key", ObjVal(removeField(key, "transaction")))
       ELSE replaceField(idx, "key",
                         ObjVal(renameField(key, "transaction", "transaction_end")))

----------------------------------------------------------------------------
(* State *)

VARIABLES
    records,             \* the collection: disk location -> stored document, <<>> a freed location
    hasTransactionTime,  \* NamespaceDetails::hasTransactionTime(), the collection flag
    last,                \* OpTime::last, the clock
    nextOid,             \* the next identifier appendOID generates
    upd,                 \* the frame of the _updateObjects call in progress
    res,                 \* the UpdateResult or error of the last operation
    ev,                  \* history: what the last step did to the collection
    fn,                  \* the input and results of the ttime.cpp functions applied alone
    meta                 \* nsdetails(ns) and its transient: whether the collection
                         \* exists, and the field names its indexes cover

vars == <<records, hasTransactionTime, last, nextOid, upd, res, ev, fn, meta>>

\* a collection without secondary indexes
MetaInit == [exists |-> TRUE, indexKeys |-> {}]

----------------------------------------------------------------------------
(* The clock: OpTime::now returns strictly increasing (sec, inc).  The wall
   clock moves to the next second when the counter of the second has reached
   MaxInc. *)

OpTimeNow(l) == IF l[2] < MaxInc THEN <<l[1], l[2] + 1>> ELSE <<l[1] + 1, 1>>
CanTick(l) == l[2] < MaxInc \/ l[1] < MaxSec

----------------------------------------------------------------------------
(* The matcher, the modifier set and the record store *)

lookup(doc, k) ==
    IF k = "_id._id" THEN getFieldDotted(doc, "_id._id", "_id", "_id")
    ELSE getField(doc, k)

\* Matcher::matches for equality predicates; null also matches a missing field
Matches(doc, pattern) ==
    \A i \in 1..Len(pattern) :
        LET k == pattern[i][1]
            v == pattern[i][2]
            e == lookup(doc, k)
        IN IF isNull(v) THEN isNull(e) \/ eoo(e) ELSE e = v

isOperator(updateobj) ==
    Len(updateobj) > 0 /\ updateobj[1][1] \in {"$inc", "$set"}

\* one modifier applied to a document: the field is replaced where it stands,
\* or appended
applyMod(doc, op, k, v) ==
    LET old == getField(doc, k)
        new == IF op = "$inc" THEN NumberInt((IF eoo(old) THEN 0 ELSE old[2]) + v[2]) ELSE v
    IN IF eoo(old) THEN Append(doc, <<k, new>>)
       ELSE [i \in 1..Len(doc) |-> IF doc[i][1] = k THEN <<k, new>> ELSE doc[i]]

\* ModSetState::createNewFromMods for a one-modifier update {$op: {k: v}}
createNewFromMods(onDisk, updateobj) ==
    LET m == updateobj[1][2][2][1] IN applyMod(onDisk, updateobj[1][1], m[1], m[2])

\* ModSet::createNewFromQuery: the equality predicates of the query, then the
\* modifiers applied
createNewFromQuery(pattern, updateobj) ==
    createNewFromMods(SelectSeq(pattern, LAMBDA f : ~isObject(f[2])), updateobj)

\* the modified document stays within the bound on field values
WithinMaxInt(doc) == LET e == getField(doc, "a") IN eoo(e) \/ e[2] <= MaxInt

\* checkNoMods: no field name starts with $
checkNoMods(o) == \A i \in 1..Len(o) : o[i][1] \notin {"$inc", "$set"}

Live(recs) == {i \in 1..Len(recs) : recs[i] # <<>>}

UserId(doc) == getFieldDotted(doc, "_id._id", "_id", "_id")
TransactionStart(doc) ==
    getFieldDotted(doc, "_id.transaction_start", "_id", "transaction_start")
TransactionEnd(doc) == getField(doc, "transaction_end")
IsCurrent(doc) == isNull(TransactionEnd(doc))
IsHistoric(doc) == isTimestamp(TransactionEnd(doc))

\* DataFileMgr::updateRecord: the document is rewritten where it is, or moved
\* to a new location when it no longer fits; the result is <<records, newLoc>>
updateRecord(recs, loc, doc, moved) ==
    IF moved THEN << Append([recs EXCEPT ![loc] = <<>>], doc), Len(recs) + 1 >>
    ELSE << [recs EXCEPT ![loc] = doc], loc >>

\* what the record store makes of a document handed to insert: in a versioned
\* collection it is wrapped, elsewhere a missing _id is generated
insertImage(versioned, doc, now, oid) ==
    IF versioned THEN wrapObjectId(doc, 0, 0, now, oid)
    ELSE IF eoo(getField(doc, "_id")) THEN << <<"_id", OIDVal(oid)>> >> \o doc
    ELSE doc

insertUsesClock(versioned, doc) == versioned /\ wrapUsesClock(doc, 0, 0)
insertUsesOID(versioned, doc) ==
    IF versioned THEN wrapUsesOID(doc) ELSE eoo(getField(doc, "_id"))

\* the unique index without the entry for current versions
duplicateKey_noLiveIndex(versioned, recs, w) ==
    ~versioned /\ \E i \in Live(recs) : getField(recs[i], "_id") = getField(w, "_id")

\* the unique index refuses a second current version of a user id, and in an
\* unversioned collection a second document with the same _id
duplicateKey(versioned, recs, w) ==
    IF versioned
    THEN IsCurrent(w) /\ \E i \in Live(recs) : IsCurrent(recs[i]) /\ UserId(recs[i]) = UserId(w)
    ELSE \E i \in Live(recs) : getField(recs[i], "_id") = getField(w, "_id")

CountCurrent(recs) == Cardinality({i \in Live(recs) : IsCurrent(recs[i])})
CountAll(recs) == Cardinality(Live(recs))

\* Cursor: a scan in disk-location order; 0 is the end, which the cursor never leaves
NextLive(recs, i) ==
    IF \E j \in Live(recs) : j >= i
    THEN CHOOSE j \in Live(recs) : j >= i /\ \A k \in Live(recs) : k >= i => j <= k
    ELSE 0
advance(recs, c) == IF c = 0 THEN 0 ELSE NextLive(recs, c + 1)

----------------------------------------------------------------------------
(* Frames, results and the history of the last step *)

\* F applied to the value x
With(x, F(_)) == F(x)

IdleUpd == [pc |-> "idle", patternOrig |-> <<>>, updateobj |-> <<>>,
            upsert |-> FALSE, multi |-> FALSE, logop |-> FALSE,
            c |-> 0, seenObjects |-> {}, numModded |-> 0, nscanned |-> 0]

\* UpdateResult(existing, mod, num), or the code of the exception thrown
UpdateResult(e, m, n) == [err |-> 0, existing |-> e, mod |-> m, num |-> n]
Thrown(code) == [err |-> code, existing |-> FALSE, mod |-> FALSE, num |-> 0]
NoResult == UpdateResult(FALSE, FALSE, 0)

\* kind: what the step did; loc: the location it selected; newLoc: where
\* updateRecord left the record; log: the entries the step gave to logOp
NoEv == [kind |-> "none", loc |-> 0, newLoc |-> 0, log |-> <<>>]
Ev(kind, loc, newLoc) == [kind |-> kind, loc |-> loc, newLoc |-> newLoc, log |-> <<>>]

\* logOp(opstr, ns, obj, patt): one oplog entry
logOp(opstr, obj, patt) == [op |-> opstr, o |-> obj, o2 |-> patt]

\* the history e of a step that called logOp for the entries, in their order
Logged(e, logop, entries) == [e EXCEPT !.log = IF logop THEN entries ELSE <<>>]

\* update.cpp 295-310: the pattern of the log entry is the _id of the matched
\* document; every stored document has an _id, so 10157 is never raised
idPattern(js, patternOrig) ==
    IF eoo(getField(js, "_id")) THEN patternOrig ELSE << <<"_id", getField(js, "_id")>> >>

\* ModSetState::getOpLogRewrite for a one-modifier update: the modifier as
\* a $set of the value the field has in the new document
getOpLogRewrite(newObj, updateobj) ==
    LET k == updateobj[1][2][2][1][1] IN
    << <<"$set", ObjVal(<< <<k, getField(newObj, k)>> >>)>> >>

\* what a step leaves: ok is FALSE when the step needs a clock value, a disk
\* location or a field value beyond the bounds of the model
Out(ok, recs, l, oid, u, r, e) ==
    [ok |-> ok, records |-> recs, last |-> l, nextOid |-> oid, upd |-> u, res |-> r, ev |-> e]

\* DataFileMgr::insert / insertWithObjMod
StoreInsert(versioned, recs, l, oid, doc) ==
    With(insertImage(versioned, doc, OpTimeNow(l), oid), LAMBDA w :
    With(duplicateKey(versioned, recs, w), LAMBDA dup :
    With(insertUsesClock(versioned, doc), LAMBDA usesClock :
        [ok |-> (usesClock => CanTick(l)) /\ (~dup => Len(recs) < MaxSlots),
         dup |-> dup,
         recs |-> IF dup THEN recs ELSE Append(recs, w),
         last |-> IF usesClock THEN OpTimeNow(l) ELSE l,
         nextOid |-> IF insertUsesOID(versioned, doc) THEN oid + 1 ELSE oid])))

----------------------------------------------------------------------------
(* _updateObjects, after the cursor loop: update.cpp 512-537 *)

\* update.cpp 515-535: the upsert
upsertInsert(recs, l, oid, u, e) ==
    With(IF isOperator(u.updateobj) THEN createNewFromQuery(u.patternOrig, u.updateobj)
         ELSE u.updateobj, LAMBDA newObj :
    IF ~isOperator(u.updateobj) /\ u.multi
    THEN Out(TRUE, recs, l, oid, IdleUpd, Thrown(10159), e)
    ELSE IF ~checkNoMods(newObj)
    THEN Out(TRUE, recs, l, oid, IdleUpd, Thrown(10154), e)
    ELSE With(StoreInsert(hasTransactionTime, recs, l, oid, newObj), LAMBDA ins :
         IF ins.dup
         THEN Out(ins.ok, recs, ins.last, ins.nextOid, IdleUpd, Thrown(11000), e)
         ELSE Out(ins.ok, ins.recs, ins.last, ins.nextOid, IdleUpd,
                  UpdateResult(FALSE, isOperator(u.updateobj), 1),
                  Logged(Ev("upsert", 0, 0), u.logop,
                         <<logOp("i", ins.recs[Len(ins.recs)], <<>>)>>))))

\* the return after the loop that reports no modified document
AfterLoop_noCount(recs, l, oid, u, e) ==
    IF u.upsert /\ u.numModded = 0
    THEN upsertInsert(recs, l, oid, u, e)
    ELSE Out(TRUE, recs, l, oid, IdleUpd,
             UpdateResult(FALSE, isOperator(u.updateobj), 0), e)

AfterLoop(recs, l, oid, u, e) ==
    IF u.numModded > 0
    THEN Out(TRUE, recs, l, oid, IdleUpd, UpdateResult(TRUE, TRUE, u.numModded), e)
    ELSE IF u.upsert
    THEN upsertInsert(recs, l, oid, u, e)
    ELSE Out(TRUE, recs, l, oid, IdleUpd,
             UpdateResult(FALSE, isOperator(u.updateobj), 0), e)

\* the loop condition while ( c->ok() ): a step that leaves the frame in the
\* loop with the cursor at its end goes on after the loop
Finish(o) ==
    IF o.upd.pc = "loop" /\ o.upd.c = 0
    THEN [AfterLoop(o.records, o.last, o.nextOid, o.upd, o.ev) EXCEPT !.ok = @ /\ o.ok]
    ELSE o

----------------------------------------------------------------------------
(* _updateObjects, one pass of the cursor loop: update.cpp 226-509 *)

\* update.cpp 394: setTransactionStartTimestamp is called on newObj alone and
\* what it returns is dropped, so the document inserted is newObj as
\* createNewFromMods built it
successorOfMods(newObj, existingObj) == newObj

\* update.cpp 469-473: the replacement document under the user id of the
\* version on disk
successorOfReplace(onDisk, updateobj) ==
    appendElementsUnique(<< <<"_id", getFieldDotted(onDisk, "_id._id", "_id", "_id")>> >>,
                         updateobj)

\* a step that returns (upd idle) when the update is not multi, else continues
Mutated(ok, recs, l, oid, u, e) ==
    IF u.multi
    THEN Out(ok, recs, l, oid, [u EXCEPT !.numModded = u.numModded + 1], NoResult, e)
    ELSE Out(ok, recs, l, oid, IdleUpd,
             UpdateResult(TRUE, isOperator(u.updateobj), u.numModded + 1), e)

\* the versioned branch that goes back to the top of the loop, where the
\* cursor may yield, between the close and the insert of the successor
versionedMods_closeOnly(u, loc, onDisk, moved) ==
    With(setTransactionEndTimestamp(onDisk, OpTimeNow(last)), LAMBDA existingObj :
    With(updateRecord(records, loc, existingObj, moved), LAMBDA ur :
        Out(CanTick(last) /\ (moved => Len(records) < MaxSlots) /\ ~IsErr(existingObj),
            ur[1], OpTimeNow(last), nextOid, [u EXCEPT !.pc = "loop"], NoResult,
            Ev("closed", loc, ur[2]))))

\* the versioned branch that rewrites the matched record with the new
\* document, as the unversioned branch does
versionedMods_inPlace(u, loc, onDisk, moved) ==
    With(createNewFromMods(onDisk, u.updateobj), LAMBDA newObj :
        Mutated(WithinMaxInt(newObj), [records EXCEPT ![loc] = newObj], last, nextOid, u,
                Ev("update", loc, loc)))

\* update.cpp 372-404, 444-452: operator update of a versioned collection
versionedMods(u, loc, onDisk, moved) ==
    With(createNewFromMods(onDisk, u.updateobj), LAMBDA newObj :
    With(setTransactionEndTimestamp(onDisk, OpTimeNow(last)), LAMBDA existingObj :
    IF IsErr(existingObj)
    THEN Out(TRUE, records, last, nextOid, IdleUpd, Thrown(ErrCode(existingObj)),
             Ev("select", loc, loc))
    ELSE
    With(updateRecord(records, loc, existingObj, moved), LAMBDA ur :
    With(StoreInsert(TRUE, ur[1], OpTimeNow(last), nextOid,
                     successorOfMods(newObj, existingObj)), LAMBDA ins :
    With(/\ CanTick(last) /\ (moved => Len(records) < MaxSlots)
         /\ WithinMaxInt(newObj) /\ ins.ok, LAMBDA ok :
    IF ins.dup
    THEN Out(ok, ur[1], ins.last, ins.nextOid, IdleUpd, Thrown(11000),
             Ev("closed", loc, ur[2]))
    ELSE Mutated(ok, ins.recs, ins.last, ins.nextOid,
                 [u EXCEPT !.seenObjects =
                     IF ur[2] # loc THEN u.seenObjects \cup {ur[2]} ELSE u.seenObjects],
                 Logged(Ev("update", loc, ur[2]), u.logop,
                        <<logOp("u", getOpLogRewrite(newObj, u.updateobj),
                                idPattern(onDisk, u.patternOrig))>>)))))))

\* update.cpp 405-428, 444-452: operator update of an unversioned collection,
\* in place when the modified field exists, else through updateRecord
unversionedMods(u, loc, onDisk, moved) ==
    With(createNewFromMods(onDisk, u.updateobj), LAMBDA newObj :
    With(updateRecord(records, loc, newObj, moved /\ Len(newObj) # Len(onDisk)), LAMBDA ur :
        Mutated((ur[2] # loc => Len(records) < MaxSlots) /\ WithinMaxInt(newObj),
                ur[1], last, nextOid,
                [u EXCEPT !.seenObjects =
                    IF ur[2] # loc THEN u.seenObjects \cup {ur[2]} ELSE u.seenObjects],
                Logged(Ev("inplace", loc, ur[2]), u.logop,
                       <<logOp("u", getOpLogRewrite(newObj, u.updateobj),
                               idPattern(onDisk, u.patternOrig))>>))))

\* update.cpp 457-497, 508: replacement update of a versioned collection
versionedReplace(u, loc, onDisk, moved) ==
    With(setTransactionEndTimestamp(onDisk, OpTimeNow(last)), LAMBDA existingObj :
    IF IsErr(existingObj)
    THEN Out(TRUE, records, last, nextOid, IdleUpd, Thrown(ErrCode(existingObj)),
             Ev("select", loc, loc))
    ELSE
    With(successorOfReplace(onDisk, u.updateobj), LAMBDA newObj :
    With(updateRecord(records, loc, existingObj, moved), LAMBDA ur :
    With(CanTick(last) /\ (moved => Len(records) < MaxSlots), LAMBDA ok :
    IF ~checkNoMods(newObj)
    THEN Out(ok, ur[1], OpTimeNow(last), nextOid, IdleUpd, Thrown(10154),
             Ev("closed", loc, ur[2]))
    ELSE
    With(StoreInsert(TRUE, ur[1], OpTimeNow(last), nextOid, newObj), LAMBDA ins :
    IF ins.dup
    THEN Out(ok /\ ins.ok, ur[1], ins.last, ins.nextOid, IdleUpd, Thrown(11000),
             Ev("closed", loc, ur[2]))
    ELSE Mutated(ok /\ ins.ok, ins.recs, ins.last, ins.nextOid, u,
                 Logged(Ev("update", loc, ur[2]), u.logop,
                        <<logOp("u", newObj, idPattern(onDisk, u.patternOrig))>>)))))))

\* DataFileMgr::updateRecord keeps the _id of the record when the new
\* document has none, and refuses another _id
keepId(onDisk, objNew) ==
    IF eoo(getField(objNew, "_id")) /\ ~eoo(getField(onDisk, "_id"))
    THEN << <<"_id", getField(onDisk, "_id")>> >> \o objNew
    ELSE objNew

\* update.cpp 498-508 (and 120-128): replacement update of an unversioned
\* collection
unversionedReplace(u, loc, onDisk, moved) ==
    IF ~checkNoMods(u.updateobj)
    THEN Out(TRUE, records, last, nextOid, IdleUpd, Thrown(10154), NoEv)
    ELSE IF getField(keepId(onDisk, u.updateobj), "_id") # getField(onDisk, "_id")
    THEN Out(TRUE, records, last, nextOid, IdleUpd, Thrown(13596), NoEv)
    ELSE With(updateRecord(records, loc, keepId(onDisk, u.updateobj), moved), LAMBDA ur :
         Mutated(moved => Len(records) < MaxSlots, ur[1], last, nextOid, u,
                 Logged(Ev("inplace", loc, ur[2]), u.logop,
                        <<logOp("u", u.updateobj, idPattern(onDisk, u.patternOrig))>>)))

\* the record the cursor of frame u stops at: the passes over records that do
\* not match (update.cpp 281-284) or that a multi-update has seen (326-328)
\* are taken together with the pass that follows them; 0 when the cursor
\* reaches the end
scanTo(u) ==
    With({j \in Live(records) :
            /\ j >= u.c
            /\ Matches(records[j], u.patternOrig)
            /\ ~(isOperator(u.updateobj) /\ u.multi /\ j \in u.seenObjects)}, LAMBDA hits :
    IF u.c = 0 \/ hits = {} THEN 0 ELSE CHOOSE j \in hits : \A k \in hits : j <= k)

\* the loop body that treats a versioned collection as an unversioned one
updateAt_unversioned(u, loc, moved) ==
    IF isOperator(u.updateobj)
    THEN unversionedMods(u, loc, records[loc], moved)
    ELSE IF u.multi
    THEN Out(TRUE, records, last, nextOid, IdleUpd, Thrown(10158), NoEv)
    ELSE unversionedReplace(u, loc, records[loc], moved)

\* the loop body without the uassert on a multi-update that has no modifiers
updateAt_multiReplace(u, loc, moved) ==
    IF isOperator(u.updateobj)
    THEN IF hasTransactionTime
         THEN versionedMods(u, loc, records[loc], moved)
         ELSE unversionedMods(u, loc, records[loc], moved)
    ELSE IF hasTransactionTime
    THEN versionedReplace(u, loc, records[loc], moved)
    ELSE unversionedReplace(u, loc, records[loc], moved)

\* the loop body that treats every collection as a versioned one
updateAt_versioned(u, loc, moved) ==
    IF isOperator(u.updateobj)
    THEN versionedMods(u, loc, records[loc], moved)
    ELSE IF u.multi
    THEN Out(TRUE, records, last, nextOid, IdleUpd, Thrown(10158), NoEv)
    ELSE versionedReplace(u, loc, records[loc], moved)

\* update.cpp 271-509 for the record at loc, which matches
updateAt(u, loc, moved) ==
    IF isOperator(u.updateobj)
    THEN IF hasTransactionTime
         THEN versionedMods(u, loc, records[loc], moved)
         ELSE unversionedMods(u, loc, records[loc], moved)
    ELSE IF u.multi
    THEN Out(TRUE, records, last, nextOid, IdleUpd, Thrown(10158), NoEv)
    ELSE IF hasTransactionTime
    THEN versionedReplace(u, loc, records[loc], moved)
    ELSE unversionedReplace(u, loc, records[loc], moved)

\* update.cpp 226-509: the passes of the loop up to and with the next record
\* that is updated; a multi-update advances the cursor before it updates
\* (update.cpp 318-320)
LoopBody(u, moved) ==
    With(scanTo(u), LAMBDA loc :
    With(Cardinality({j \in Live(records) : u.c # 0 /\ j >= u.c /\ (loc = 0 \/ j <= loc)}), LAMBDA passed :
    IF loc = 0
    THEN Out(TRUE, records, last, nextOid,
             [u EXCEPT !.nscanned = u.nscanned + passed, !.c = 0], NoResult, NoEv)
    ELSE updateAt([u EXCEPT !.nscanned = u.nscanned + passed,
                            !.c = IF u.multi /\ isOperator(u.updateobj)
                                  THEN advance(records, loc) ELSE loc],
                  loc, moved)))

----------------------------------------------------------------------------
(* _updateById and the head of _updateObjects: update.cpp 55-222 *)

\* isSimpleIdQuery: the query is one equality on _id
isSimpleIdQuery(pattern) ==
    Len(pattern) = 1 /\ pattern[1][1] = "_id" /\ ~isObject(pattern[1][2])

\* update.cpp 181-182: the update goes through _updateById
useIdHack(patternOrig, multi) ==
    ~multi /\ isSimpleIdQuery(patternOrig) /\ ~hasTransactionTime

\* update.cpp 55-129
updateById(u, moved) ==
    With({j \in Live(records) : getField(records[j], "_id") = u.patternOrig[1][2]}, LAMBDA found :
    IF found = {}
    THEN Out(TRUE, records, last, nextOid, IdleUpd, UpdateResult(FALSE, FALSE, 0), NoEv)
    ELSE With(CHOOSE j \in found : TRUE, LAMBDA loc :
         IF isOperator(u.updateobj)
         THEN unversionedMods(u, loc, records[loc], moved)
         ELSE unversionedReplace(u, loc, records[loc], moved)))

\* update.cpp 216-222: the cursor is opened and, if it is ok, the loop entered
openCursor(u, moved) == LoopBody([u EXCEPT !.c = NextLive(records, 1)], moved)

\* update.cpp 161-222
updateObjectsHead(pattern, updateobj, upsert, multi, logop, moved) ==
    With(IF hasTransactionTime THEN addCurrentVersionCriterion(pattern) ELSE pattern,
         LAMBDA patternOrig :
    IF IsErr(patternOrig)
    THEN Out(TRUE, records, last, nextOid, IdleUpd, Thrown(ErrCode(patternOrig)), NoEv)
    ELSE
    With([IdleUpd EXCEPT !.pc = "loop", !.patternOrig = patternOrig, !.updateobj = updateobj,
                         !.upsert = upsert, !.multi = multi, !.logop = logop], LAMBDA u :
    With(useIdHack(patternOrig, multi), LAMBDA idhack :
    With(IF idhack THEN updateById(u, moved)
         ELSE Out(TRUE, records, last, nextOid, IdleUpd, NoResult, NoEv), LAMBDA result :
    IF idhack /\ (result.res.err # 0 \/ result.res.existing \/ ~upsert)
    THEN result
    ELSE IF idhack /\ ~isOperator(updateobj) /\ ~logop
    THEN upsertInsert(records, last, nextOid, u, NoEv)
    ELSE openCursor(u, moved)))))

----------------------------------------------------------------------------
(* deleteObjects of a collection: matching current versions are closed; in an
   unversioned collection matching documents are removed *)

RECURSIVE closeEach(_, _, _, _)
closeEach(recs, l, locs, versioned) ==
    IF locs = {} THEN <<recs, l>>
    ELSE With(CHOOSE j \in locs : \A k \in locs : j <= k, LAMBDA j :
         IF versioned
         THEN With(setTransactionEndTimestamp(recs[j], OpTimeNow(l)), LAMBDA closed :
              IF IsErr(closed) THEN <<recs, l>>
              ELSE closeEach([recs EXCEPT ![j] = closed], OpTimeNow(l), locs \ {j}, versioned))
         ELSE closeEach([recs EXCEPT ![j] = <<>>], l, locs \ {j}, versioned))

TicksLeft(l) == (MaxSec - l[1]) * MaxInc + (MaxInc - l[2])

\* the first of the locations a delete acts on, 0 if there is none
firstOf(locs) == IF locs = {} THEN 0 ELSE CHOOSE j \in locs : \A k \in locs : j <= k

\* the locations a delete acts on
deleteTargets(patternOrig, justOne) ==
    With({j \in Live(records) : Matches(records[j], patternOrig)}, LAMBDA hits :
    IF justOne /\ hits # {} THEN {CHOOSE j \in hits : \A k \in hits : j <= k} ELSE hits)

\* deleteObjects that removes the matching records of a versioned collection
deleteObjects_remove(pattern, justOne) ==
    With(deleteTargets(pattern, justOne), LAMBDA locs :
    With(closeEach(records, last, locs, FALSE), LAMBDA done :
        Out(TRUE, done[1], done[2], nextOid, upd, IF upd.pc = "idle" THEN NoResult ELSE res,
            Ev("remove", firstOf(locs), firstOf(locs)))))

deleteObjects(pattern, justOne) ==
    With(IF hasTransactionTime THEN addCurrentVersionCriterion(pattern) ELSE pattern,
         LAMBDA patternOrig :
    IF IsErr(patternOrig)
    THEN Out(TRUE, records, last, nextOid, upd,
             IF upd.pc = "idle" THEN Thrown(ErrCode(patternOrig)) ELSE res, NoEv)
    ELSE
    With(deleteTargets(patternOrig, justOne), LAMBDA locs :
    With(closeEach(records, last, locs, hasTransactionTime), LAMBDA done :
        Out(hasTransactionTime => Cardinality(locs) <= TicksLeft(last),
            done[1], done[2], nextOid, upd, IF upd.pc = "idle" THEN NoResult ELSE res,
            Ev(IF hasTransactionTime THEN "delete" ELSE "remove",
               firstOf(locs), firstOf(locs))))))

----------------------------------------------------------------------------
(* Inputs *)

A(v) == <<"a", NumberInt(v)>>
Id(u) == <<"_id", NumberInt(u)>>

\* a transaction_start the clock of the model does not reach
FutureStart == TimestampVal(MaxSec + 1, 1)

\* a document in version shape, as a client can send it
Shaped(u, start, end, v) ==
    << <<"_id", ObjVal(<< Id(u), <<"transaction_start", start>> >>)>>,
       <<"transaction_end", end>>, A(v) >>

UserDocs == {<<A(v)>> : v \in 0..MaxA} \cup {<<Id(u), A(v)>> : u \in 1..MaxUid, v \in 0..MaxA}
InsertDocs == UserDocs
Modifiers == {<< <<"$inc", ObjVal(<<A(1)>>)>> >>}
Replacements == {<<A(MaxA + 1)>>, Shaped(1, FutureStart, Null, MaxA + 1)}
UpdateObjs == Modifiers \cup Replacements
LogOps == {TRUE}
Patterns == {<<>>, <<Id(1)>>, << <<"transaction_end", TimestampVal(1, 1)>> >>}

----------------------------------------------------------------------------
(* Operations on a collection *)

FnIdle == [op |-> "none", obj |-> <<>>, val |-> 0, inc |-> 0, now |-> <<0, 0>>,
           oid |-> 0, out |-> <<>>]

Init ==
    /\ records = <<>>
    /\ hasTransactionTime = TRUE
    /\ last = <<1, 0>>
    /\ nextOid = 1
    /\ upd = IdleUpd
    /\ res = NoResult
    /\ ev = NoEv
    /\ fn = FnIdle
    /\ meta = MetaInit

Apply(out) ==
    \E o \in {out} :
        /\ o.ok
        /\ records' = o.records
        /\ last' = o.last
        /\ nextOid' = o.nextOid
        /\ upd' = o.upd
        /\ res' = o.res
        /\ ev' = o.ev
        /\ UNCHANGED <<hasTransactionTime, fn, meta>>

\* another client runs while no update runs, or while the update in progress
\* has yielded: update.cpp 237-269
OthersMayRun == upd.pc = "idle" \/ (upd.pc = "loop" /\ upd.nscanned > 0)

insertOut(doc) ==
    With(StoreInsert(hasTransactionTime, records, last, nextOid, doc), LAMBDA ins :
        Out(ins.ok, ins.recs, ins.last, ins.nextOid, upd,
            IF upd.pc = "idle" THEN (IF ins.dup THEN Thrown(11000) ELSE NoResult) ELSE res,
            IF ins.dup THEN NoEv ELSE Ev("insert", Len(ins.recs), Len(ins.recs))))

Insert(doc) == OthersMayRun /\ Apply(insertOut(doc))

Delete(pattern, justOne) == OthersMayRun /\ Apply(deleteObjects(pattern, justOne))

UpdateStart(pattern, updateobj, upsert, multi, logop, moved) ==
    /\ upd.pc = "idle"
    /\ Apply(Finish(updateObjectsHead(pattern, updateobj, upsert, multi, logop, moved)))

UpdateLoop(moved) ==
    /\ upd.pc = "loop"
    /\ Apply(Finish(LoopBody(upd, moved)))

Next ==
    \/ \E doc \in InsertDocs : Insert(doc)
    \/ \E pattern \in Patterns, justOne \in BOOLEAN : Delete(pattern, justOne)
    \/ \E pattern \in Patterns, updateobj \in UpdateObjs, upsert \in BOOLEAN,
          multi \in BOOLEAN, logop \in LogOps, moved \in BOOLEAN :
            UpdateStart(pattern, updateobj, upsert, multi, logop, moved)
    \/ \E moved \in BOOLEAN : UpdateLoop(moved)

Spec == Init /\ [][Next]_vars

\* multi-updates with modifiers next to inserts and to deletes of one user id
MultiPatterns == {<<>>, << <<"_id._id", NumberInt(1)>> >>}

NextMulti ==
    \/ \E doc \in InsertDocs : Insert(doc)
    \/ \E pattern \in MultiPatterns, justOne \in BOOLEAN : Delete(pattern, justOne)
    \/ \E pattern \in MultiPatterns, updateobj \in Modifiers, upsert \in BOOLEAN,
          logop \in LogOps, moved \in BOOLEAN :
            UpdateStart(pattern, updateobj, upsert, TRUE, logop, moved)
    \/ \E moved \in BOOLEAN : UpdateLoop(moved)

SpecMulti == Init /\ [][NextMulti]_vars

\* the same operations on a collection without transaction time
InitPlain ==
    /\ records = <<>>
    /\ hasTransactionTime = FALSE
    /\ last = <<1, 0>>
    /\ nextOid = 1
    /\ upd = IdleUpd
    /\ res = NoResult
    /\ ev = NoEv
    /\ fn = FnIdle
    /\ meta = MetaInit

SpecPlain == InitPlain /\ [][Next]_vars

----------------------------------------------------------------------------
(* _updateObjects of a versioned collection pass by pass, with the yield at
   the top of the loop: update.cpp 154-269, 509-537 *)

\* ModSet::isIndexed: an index covers a field the modifiers write
isIndexed(updateobj, indexKeys) ==
    /\ isOperator(updateobj)
    /\ \E i \in 1..Len(updateobj[1][2][2]) : updateobj[1][2][2][i][1] \in indexKeys

\* the locations the cursor of frame u has still to stop at
Remaining(u) ==
    {j \in Live(records) :
        /\ u.c # 0 /\ j >= u.c
        /\ Matches(records[j], u.patternOrig)
        /\ ~(isOperator(u.updateobj) /\ u.multi /\ j \in u.seenObjects)}

\* update.cpp 154-222: the frame when the cursor has been opened.  yields
\* counts the yields that released the lock; d and nsdt are the handles, each
\* the number of yields that had happened when it was fetched; released: the
\* lock is released at the top of the loop.  History of the operation:
\* initial, the locations that matched when the cursor was opened, closed and
\* inserted, the locations it closed and the successors it inserted.
YieldFrame(patternOrig, updateobj, upsert, multi, logop) ==
    [pc |-> "loop", patternOrig |-> patternOrig, updateobj |-> updateobj,
     upsert |-> upsert, multi |-> multi, logop |-> logop,
     c |-> NextLive(records, 1), seenObjects |-> {}, numModded |-> 0, nscanned |-> 0,
     yields |-> 0, d |-> 0, nsdt |-> 0, released |-> FALSE,
     modsIsIndexed |-> isIndexed(updateobj, meta.indexKeys),
     initial |-> {j \in Live(records) : Matches(records[j], patternOrig)},
     closed |-> {}, inserted |-> {}]

yieldHead(pattern, updateobj, upsert, multi, logop) ==
    With(addCurrentVersionCriterion(pattern), LAMBDA patternOrig :
    IF IsErr(patternOrig)
    THEN Out(TRUE, records, last, nextOid, IdleUpd, Thrown(ErrCode(patternOrig)), NoEv)
    ELSE Out(TRUE, records, last, nextOid,
             YieldFrame(patternOrig, updateobj, upsert, multi, logop), NoResult, NoEv))

\* the recovery that keeps the handles it had before the yield
yieldRecover_keepHandles(u) ==
    IF u.released
    THEN [u EXCEPT !.released = FALSE,
                   !.modsIsIndexed = @ \/ isIndexed(u.updateobj, meta.indexKeys)]
    ELSE u

\* update.cpp 253-267: after a yield that released the lock the handles are
\* fetched again, and the index keys are read again unless the modifiers
\* already count as indexed
yieldRecover(u) ==
    IF u.released
    THEN [u EXCEPT !.released = FALSE, !.d = u.yields, !.nsdt = u.yields,
                   !.modsIsIndexed = IF ~u.modsIsIndexed
                                     THEN isIndexed(u.updateobj, meta.indexKeys)
                                     ELSE u.modsIsIndexed]
    ELSE u

\* update.cpp 399-403 and the history of a pass that mutated: the frame keeps
\* the locations it closed and inserted, the step the handles and the
\* modsIsIndexed the pass worked with
afterMutation(o) ==
    IF o.upd.pc = "loop" /\ o.ev.kind = "update"
    THEN [o EXCEPT !.upd.seenObjects = IF o.upd.modsIsIndexed THEN @ \cup {o.ev.newLoc} ELSE @,
                   !.upd.closed = @ \cup {o.ev.newLoc},
                   !.upd.inserted = @ \cup {Len(o.records)},
                   !.ev = [kind |-> o.ev.kind, loc |-> o.ev.loc, newLoc |-> o.ev.newLoc,
                           log |-> o.ev.log, d |-> o.upd.d, nsdt |-> o.upd.nsdt,
                           yields |-> o.upd.yields, modsIsIndexed |-> o.upd.modsIsIndexed]]
    ELSE o

\* update.cpp 226-509: one pass of the loop, over the record the cursor is at
onePass(u, moved) ==
    With(yieldRecover(u), LAMBDA v :
    IF scanTo(v) = v.c
    THEN afterMutation(LoopBody(v, moved))
    ELSE Out(TRUE, records, last, nextOid,
             [v EXCEPT !.c = advance(records, v.c), !.nscanned = v.nscanned + 1],
             NoResult, Ev("scan", v.c, v.c)))

\* another client runs while no update runs or while the update in progress
\* has released the lock
LockFree ==
    hasTransactionTime /\ meta.exists /\ (IF upd.pc = "idle" THEN TRUE ELSE upd.released)

YieldInsert(doc) == LockFree /\ Apply(insertOut(doc))

YieldDelete(pattern, justOne) == LockFree /\ Apply(deleteObjects(pattern, justOne))

\* ensureIndex and dropIndexes of another client
SetIndexKeys(keys) ==
    /\ LockFree
    /\ keys # meta.indexKeys
    /\ meta' = [meta EXCEPT !.indexKeys = keys]
    /\ ev' = Ev("index", 0, 0)
    /\ UNCHANGED <<records, hasTransactionTime, last, nextOid, upd, res, fn>>

\* another client drops the collection while the update has released the lock
DropCollection ==
    /\ LockFree
    /\ upd.pc = "loop"
    /\ meta' = [exists |-> FALSE, indexKeys |-> {}]
    /\ records' = [j \in 1..Len(records) |-> <<>>]
    /\ ev' = Ev("drop", 0, 0)
    /\ UNCHANGED <<hasTransactionTime, last, nextOid, upd, res, fn>>

YieldStart(pattern, updateobj, upsert, multi, logop) ==
    /\ hasTransactionTime /\ meta.exists
    /\ upd.pc = "idle"
    /\ Apply(Finish(yieldHead(pattern, updateobj, upsert, multi, logop)))

\* update.cpp 237-250: yieldSometimes releases the lock
YieldRelease ==
    /\ hasTransactionTime /\ meta.exists
    /\ upd.pc = "loop" /\ upd.nscanned > 0 /\ ~upd.released
    /\ upd' = [upd EXCEPT !.released = TRUE, !.yields = @ + 1]
    /\ ev' = Ev("yield", 0, 0)
    /\ UNCHANGED <<records, hasTransactionTime, last, nextOid, res, fn, meta>>

\* update.cpp 247-257, 512-537: the loop is left at the yield, because the
\* ClientCursor was deleted during the yield (yieldSometimes fails), or the
\* cursor is no longer ok, or nsdetails finds no collection
YieldStop ==
    /\ hasTransactionTime /\ meta.exists
    /\ upd.pc = "loop" /\ upd.released
    /\ Apply(AfterLoop(records, last, nextOid, upd, Ev("stop", 0, 0)))

\* update.cpp 515-535 on a namespace that no longer exists: the insert of the
\* upsert creates the collection anew, without transaction time
upsertRecreate(u, e) ==
    With(IF isOperator(u.updateobj) THEN createNewFromQuery(u.patternOrig, u.updateobj)
         ELSE u.updateobj, LAMBDA newObj :
    With(StoreInsert(FALSE, records, last, nextOid, newObj), LAMBDA ins :
        Out(ins.ok, ins.recs, ins.last, ins.nextOid, IdleUpd,
            UpdateResult(FALSE, isOperator(u.updateobj), 1),
            Logged(e, u.logop, <<logOp("i", ins.recs[Len(ins.recs)], <<>>)>>))))

\* update.cpp 253-257, 512-537: nsdetails finds no collection after the yield
YieldStopDropped ==
    /\ hasTransactionTime /\ ~meta.exists
    /\ upd.pc = "loop" /\ upd.released
    /\ IF upd.numModded = 0 /\ upd.upsert
       THEN /\ \E o \in {upsertRecreate(upd, Ev("upsert", 0, 0))} :
                 /\ o.ok
                 /\ records' = o.records
                 /\ last' = o.last
                 /\ nextOid' = o.nextOid
                 /\ upd' = o.upd
                 /\ res' = o.res
                 /\ ev' = o.ev
            /\ hasTransactionTime' = FALSE
            /\ meta' = MetaInit
            /\ UNCHANGED fn
       ELSE Apply(AfterLoop(records, last, nextOid, upd, Ev("stop", 0, 0)))

YieldPass(moved) ==
    /\ hasTransactionTime /\ meta.exists
    /\ upd.pc = "loop"
    /\ Apply(Finish(onePass(upd, moved)))

NextYield ==
    \/ \E doc \in InsertDocs : YieldInsert(doc)
    \/ \E pattern \in MultiPatterns : YieldDelete(pattern, TRUE)
    \/ \E keys \in SUBSET {"a"} : SetIndexKeys(keys)
    \/ DropCollection
    \/ \E pattern \in MultiPatterns, updateobj \in Modifiers, upsert \in BOOLEAN,
          logop \in LogOps :
            YieldStart(pattern, updateobj, upsert, TRUE, logop)
    \/ YieldRelease
    \/ YieldStop
    \/ YieldStopDropped
    \/ YieldPass(FALSE)

SpecYield == Init /\ [][NextYield]_vars

----------------------------------------------------------------------------
(* The functions of db/ttime.cpp applied alone *)

FnDocs == UserDocs
          \cup {<<>>,
                <<A(0), <<"transaction_end", TimestampVal(1, 1)>> >>,
                << <<"_id", ObjVal(<<A(0)>>)>>, A(0) >>,
                Shaped(1, TimestampVal(1, 1), Null, 0),
                Shaped(1, TimestampVal(1, 1), TimestampVal(1, 2), 0)}
\* the first and the last value of the clock
FnClock == {<<1, 1>>, <<MaxSec, MaxInc>>}
\* the start arguments: val in milliseconds, inc
FnVals == {sec * 1000 : sec \in 0..MaxSec}
FnIncs == {0, 1, MaxInc}
\* the identifiers appendOID generates
FnOids == {1, MaxSlots}

FnWrap(obj, val, inc, now, oid) ==
    /\ fn.op = "none"
    /\ fn' = [op |-> "wrapObjectId", obj |-> obj, val |-> val, inc |-> inc, now |-> now,
              oid |-> oid, out |-> wrapObjectId(obj, val, inc, now, oid)]
    /\ UNCHANGED <<records, hasTransactionTime, last, nextOid, upd, res, ev, meta>>

\* wrapObjectId applied to what wrapObjectId returned
FnRewrap(val, inc, now, oid) ==
    /\ fn.op = "wrapObjectId"
    /\ fn' = [op |-> "rewrap", obj |-> fn.out, val |-> val, inc |-> inc, now |-> now,
              oid |-> oid, out |-> wrapObjectId(fn.out, val, inc, now, oid)]
    /\ UNCHANGED <<records, hasTransactionTime, last, nextOid, upd, res, ev, meta>>

FnClose(obj, now) ==
    /\ fn.op = "none"
    /\ fn' = [op |-> "setTransactionEndTimestamp", obj |-> obj, val |-> 0, inc |-> 0,
              now |-> now, oid |-> 0, out |-> setTransactionEndTimestamp(obj, now)]
    /\ UNCHANGED <<records, hasTransactionTime, last, nextOid, upd, res, ev, meta>>

\* the new documents and the predecessors handed to setTransactionStartTimestamp
FnNewDocs == {<<A(MaxA + 1)>>,
              <<Id(MaxUid + 1), A(MaxA + 1)>>,
              <<A(MaxA + 1), <<"transaction_end", TimestampVal(1, 1)>> >>,
              Shaped(1, TimestampVal(1, 1), Null, MaxA + 1)}
FnPrevDocs == {Shaped(u, TimestampVal(1, 1), e, 0) :
                  u \in 1..MaxUid,
                  e \in {Null, TimestampVal(0, 0), TimestampVal(1, 1), TimestampVal(MaxSec, MaxInc)}}
              \cup {<<Id(1), A(0)>>}

FnSucceed(newObj, prevObj, now, oid) ==
    /\ fn.op = "none"
    /\ fn' = [op |-> "setTransactionStartTimestamp", obj |-> newObj, prev |-> prevObj,
              val |-> 0, inc |-> 0, now |-> now, oid |-> oid,
              out |-> setTransactionStartTimestamp(newObj, prevObj, now, oid)]
    /\ UNCHANGED <<records, hasTransactionTime, last, nextOid, upd, res, ev, meta>>

NextFn ==
    \/ \E obj \in FnDocs, val \in FnVals, inc \in FnIncs, now \in FnClock, oid \in FnOids :
          FnWrap(obj, val, inc, now, oid)
    \/ \E val \in FnVals, inc \in FnIncs, now \in FnClock, oid \in FnOids :
          FnRewrap(val, inc, now, oid)
    \/ \E obj \in FnDocs, now \in FnClock : FnClose(obj, now)
    \/ \E newObj \in FnNewDocs, prevObj \in FnPrevDocs, now \in FnClock, oid \in FnOids :
          FnSucceed(newObj, prevObj, now, oid)

SpecFn == Init /\ [][NextFn]_vars

----------------------------------------------------------------------------
(* The selector and sort rewriters of db/ttime.cpp applied alone *)

\* the bounds of a time-range query
SelTimes == {Null, TimestampVal(1, 1), TimestampVal(MaxSec, MaxInc)}

\* the user's other predicates
SelRests == {<<>>,
             <<A(0)>>,
             << <<"$or", ArrVal(<< ObjVal(<<A(0)>>), ObjVal(<<Id(1)>>) >>)>> >>,
             << <<"transaction_end", TimestampVal(1, 1)>> >>,
             << <<"transaction_end", Null>>, A(0) >>}

\* values of the transaction key with one subform, with none and with several
SelSingle ==
    {ObjVal(<< <<"current", v>> >>) : v \in {BoolVal(TRUE), BoolVal(FALSE), NumberInt(1)}}
    \cup {ObjVal(<< <<"inrange", ArrVal(<<a, b>>)>> >>) : a \in SelTimes, b \in SelTimes}
    \cup {ObjVal(<< <<"inrange", v>> >>) :
             v \in {NumberInt(5), ArrVal(<<TimestampVal(1, 1)>>),
                    ArrVal(<<TimestampVal(1, 1), Null, TimestampVal(1, 1)>>)}}
    \cup {ObjVal(<< <<"at", t>> >>) : t \in SelTimes}
    \cup {ObjVal(<< <<"all", v>> >>) : v \in {BoolVal(TRUE), BoolVal(FALSE), NumberInt(1)}}
SelNone == {ObjVal(<<>>), NumberInt(5), ObjVal(<<A(0)>>)}
SelSeveral ==
    {ObjVal(<< <<"at", TimestampVal(1, 1)>>, <<"all", BoolVal(TRUE)>> >>),
     ObjVal(<< <<"all", BoolVal(TRUE)>>, <<"at", TimestampVal(1, 1)>> >>),
     ObjVal(<< <<"at", TimestampVal(1, 1)>>, <<"all", BoolVal(FALSE)>> >>),
     ObjVal(<< <<"inrange", ArrVal(<<TimestampVal(1, 1), Null>>)>>, <<"all", BoolVal(FALSE)>> >>),
     ObjVal(<< <<"inrange", ArrVal(<<TimestampVal(1, 1), Null>>)>>,
               <<"at", TimestampVal(MaxSec, MaxInc)>> >>),
     ObjVal(<< <<"all", BoolVal(TRUE)>>, <<"current", BoolVal(TRUE)>> >>),
     ObjVal(<< <<"current", BoolVal(TRUE)>>, <<"inrange", NumberInt(5)>> >>)}
SelTransactions == SelSingle \cup SelNone \cup SelSeveral

SelQueries ==
    SelRests
    \cup {<< <<"transaction", t>> >> \o rest : t \in SelTransactions, rest \in SelRests}
    \cup {rest \o << <<"transaction", t>> >> : t \in SelTransactions, rest \in SelRests}

\* sort specifications of up to two keys
SortKeys == {"a", "_id", "transaction", "transaction_end"}
SortDirs == {NumberInt(1), NumberInt(-1)}
SelOrders ==
    {<<>>}
    \cup {<< <<k, d>> >> : k \in SortKeys, d \in SortDirs}
    \cup {<< <<k1, d1>>, <<k2, d2>> >> :
             k1 \in SortKeys, k2 \in SortKeys \ {"a"}, d1 \in SortDirs, d2 \in SortDirs}

SelCriteria(query) ==
    /\ fn.op = "none"
    /\ fn' = [op |-> "addTemporalCriteria", obj |-> query, out |-> addTemporalCriteria(query)]
    /\ UNCHANGED <<records, hasTransactionTime, last, nextOid, upd, res, ev, meta>>

\* addTemporalCriteria on a selector with at: t and on it with inrange: [t, t]
SelAt(rest, t) ==
    /\ fn.op = "none"
    /\ fn' = [op |-> "at", obj |-> rest, t |-> t,
              out |-> addTemporalCriteria(
                          rest \o << <<"transaction", ObjVal(<< <<"at", t>> >>)>> >>),
              out2 |-> addTemporalCriteria(
                          rest \o << <<"transaction",
                                       ObjVal(<< <<"inrange", ArrVal(<<t, t>>)>> >>)>> >>)]
    /\ UNCHANGED <<records, hasTransactionTime, last, nextOid, upd, res, ev, meta>>

SelOrder(order) ==
    /\ fn.op = "none"
    /\ fn' = [op |-> "addTemporalOrder", obj |-> order, out |-> addTemporalOrder(order)]
    /\ UNCHANGED <<records, hasTransactionTime, last, nextOid, upd, res, ev, meta>>

\* addTemporalOrder applied to what addTemporalOrder returned
SelReorder ==
    /\ fn.op = "addTemporalOrder"
    /\ fn' = [op |-> "reorder", orig |-> fn.obj, obj |-> fn.out,
              out |-> addTemporalOrder(fn.out)]
    /\ UNCHANGED <<records, hasTransactionTime, last, nextOid, upd, res, ev, meta>>

\* index keys of up to three entries and index specifications around them
IndexEntries ==
    {<<"a", NumberInt(1)>>}
    \cup {<<"transaction", v>> : v \in {NumberInt(0), NumberInt(1), NumberInt(-1), BoolVal(TRUE)}}
    \cup {<<"transaction_end", v>> : v \in {NumberInt(1), NumberInt(-1)}}
IndexKeys ==
    {<<>>}
    \cup {<<e>> : e \in IndexEntries}
    \cup {p \in {<<e1, e2>> : e1 \in IndexEntries, e2 \in IndexEntries} : p[1][1] # p[2][1]}
    \cup {<<e1, e2, e3>> : e1 \in {e \in IndexEntries : e[1] = "a"},
                            e2 \in {e \in IndexEntries : e[1] = "transaction"},
                            e3 \in {e \in IndexEntries : e[1] = "transaction_end"}}
IndexSpecs ==
    {<< <<"key", ObjVal(k)>> >> : k \in IndexKeys}
    \cup {<< <<"ns", NumberInt(1)>>, <<"key", ObjVal(k)>>, <<"unique", BoolVal(TRUE)>> >> :
             k \in IndexKeys}

IndexModify(idx) ==
    /\ fn.op = "none"
    /\ fn' = [op |-> "modifyTransactionTimeIndex", obj |-> idx,
              out |-> modifyTransactionTimeIndex(idx)]
    /\ UNCHANGED <<records, hasTransactionTime, last, nextOid, upd, res, ev, meta>>

\* modifyTransactionTimeIndex applied to what modifyTransactionTimeIndex
\* returned
IndexRemodify ==
    /\ fn.op = "modifyTransactionTimeIndex"
    /\ ~IsErr(fn.out)
    /\ fn' = [op |-> "remodify", orig |-> fn.obj, obj |-> fn.out,
              out |-> modifyTransactionTimeIndex(fn.out)]
    /\ UNCHANGED <<records, hasTransactionTime, last, nextOid, upd, res, ev, meta>>

\* expiry fields, expiry periods in seconds and readings of the wall clock in
\* milliseconds
MaxTTL == 4
TTLFields == {"a", "created"}
TTLPeriods == 0..MaxTTL
TTLNows == {2000, 2999, 3001}

\* getTTLQuery with the clock at nowMillis; time(0) is the same instant in
\* seconds
TTLQuery(field, ttl, nowMillis) ==
    /\ fn.op = "none"
    /\ fn' = [op |-> "getTTLQuery", obj |-> <<>>, field |-> field, ttl |-> ttl,
              nowMillis |-> nowMillis, nowSecs |-> nowMillis \div 1000,
              out |-> getTTLQuery(field, ttl, nowMillis, nowMillis \div 1000)]
    /\ UNCHANGED <<records, hasTransactionTime, last, nextOid, upd, res, ev, meta>>

NextSel ==
    \/ \E idx \in IndexSpecs : IndexModify(idx)
    \/ \E query \in SelQueries : SelCriteria(query)
    \/ \E rest \in SelRests, t \in SelTimes : SelAt(rest, t)
    \/ \E order \in SelOrders : SelOrder(order)
    \/ SelReorder
    \/ IndexRemodify
    \/ \E field \in TTLFields, ttl \in TTLPeriods, nowMillis \in TTLNows :
          TTLQuery(field, ttl, nowMillis)

SpecSel == Init /\ [][NextSel]_vars

\* version records a rewritten selector is matched against
SelRecords ==
    {Shaped(1, s, e, v) :
        s \in {TimestampVal(1, 1), TimestampVal(MaxSec, 1)},
        e \in {Null, TimestampVal(1, 1), TimestampVal(MaxSec, 1), TimestampVal(MaxSec, MaxInc)},
        v \in {0, 1}}

\* the matcher on one predicate: $gte and $lte compare Timestamps, null
\* matches a missing field, anything else is equality
MatchPred(doc, f) ==
    LET e == IF f[1] = "_id.transaction_start" THEN TransactionStart(doc) ELSE lookup(doc, f[1])
    IN IF isObject(f[2]) /\ hasElement(f[2][2], "$gte")
       THEN isTimestamp(e) /\ TsLE(getField(f[2][2], "$gte")[2], e[2])
       ELSE IF isObject(f[2]) /\ hasElement(f[2][2], "$lte")
       THEN isTimestamp(e) /\ TsLE(e[2], getField(f[2][2], "$lte")[2])
       ELSE IF isNull(f[2]) THEN isNull(e) \/ eoo(e)
       ELSE e = f[2]

\* the matcher on a selector of predicates and $or clauses
MatchesSel(doc, sel) ==
    \A i \in 1..Len(sel) :
        IF sel[i][1] = "$or"
        THEN \E c \in 1..Len(sel[i][2][2]) :
                \A j \in 1..Len(sel[i][2][2][c][2]) : MatchPred(doc, sel[i][2][2][c][2][j])
        ELSE MatchPred(doc, sel[i])

----------------------------------------------------------------------------
(* Properties *)

C2_Succession ==
    (hasTransactionTime /\ ev.kind = "update") =>
        /\ UserId(records[Len(records)]) = UserId(records[ev.newLoc])
        /\ TransactionStart(records[Len(records)]) = TransactionEnd(records[ev.newLoc])

\* C3: every stored record of a versioned collection whose transaction_end is
\* not null has _id.transaction_start <= transaction_end, compared on (sec, inc).
C3_Interval ==
    hasTransactionTime =>
        \A j \in Live(records) :
            IsHistoric(records[j]) =>
                /\ isTimestamp(TransactionStart(records[j]))
                /\ TsLE(TransactionStart(records[j])[2], TransactionEnd(records[j])[2])

\* C4: a record whose transaction_end is not null stays where it is with
\* every field as it was, whatever update or delete runs; and the record an
\* update or delete selects for mutation is a current one.
C4_HistoricImmutable ==
    [][ /\ \A j \in Live(records) :
              IsHistoric(records[j]) => (j \in Live(records') /\ records'[j] = records[j])
        /\ (ev'.kind \in {"select", "closed", "update", "delete"} /\ ev'.loc # 0)
              => IsCurrent(records[ev'.loc]) ]_vars

\* an update has run while a version closed earlier was stored
C4_Witness ==
    /\ ev.kind \in {"update", "delete"}
    /\ ev.loc # 0
    /\ \E j \in Live(records) : j # ev.newLoc /\ IsHistoric(records[j])

\* C5: no step of a versioned collection removes a record: the number of
\* stored records never decreases and every historical record stays stored.
C5_NeverRemoved ==
    [][ hasTransactionTime =>
          /\ CountAll(records') >= CountAll(records)
          /\ \A j \in Live(records) :
                IsHistoric(records[j]) => \E k \in Live(records') : records'[k] = records[j]
      ]_vars

\* insert, update, insert, remove: three records in the full history, one current
C5_Witness ==
    /\ ev.kind = "delete"
    /\ ev.loc # 0
    /\ CountAll(records) = 3
    /\ CountCurrent(records) = 1
    /\ \E j \in Live(records) :
          IsHistoric(records[j]) /\ getField(records[j], "a") = NumberInt(1)

\* C6: a successful update of one document of a versioned collection leaves
\* the number of current records as it was and adds one record: the matched
\* record, which was current, is historical with its other fields as they
\* were, and the one new record is current and carries the updated value
\* (a incremented by the modifier, or the a of the replacement document).
C6_SingleUpdate ==
    [][ (hasTransactionTime /\ ev'.kind = "update" /\ upd.pc = "idle" /\ upd'.pc = "idle"
            /\ res'.err = 0)
        =>
          /\ IsCurrent(records[ev'.loc])
          /\ CountCurrent(records') = CountCurrent(records)
          /\ CountAll(records') = CountAll(records) + 1
          /\ IsHistoric(records'[ev'.newLoc])
          /\ Len(records'[ev'.newLoc]) = Len(records[ev'.loc])
          /\ \A i \in 1..Len(records[ev'.loc]) :
                records[ev'.loc][i][1] # "transaction_end"
                    => records'[ev'.newLoc][i] = records[ev'.loc][i]
          /\ Len(records') > Len(records)
          /\ IsCurrent(records'[Len(records')])
          /\ getField(records'[Len(records')], "a") =
                IF res'.mod THEN NumberInt(getField(records[ev'.loc], "a")[2] + 1)
                ELSE NumberInt(MaxA + 1)
          /\ \A k \in Live(records') \ {ev'.newLoc, Len(records')} :
                k \in Live(records) /\ records'[k] = records[k]
      ]_vars

\* insert {a: 0}, update with {$inc: {a: 1}}: one current record, two in all
C6_Witness ==
    /\ ev.kind = "update"
    /\ upd.pc = "idle"
    /\ res = UpdateResult(TRUE, TRUE, 1)
    /\ CountCurrent(records) = 1
    /\ CountAll(records) = 2
    /\ getField(records[Len(records)], "a") = NumberInt(1)

\* C7: a delete of a versioned collection that matches a current record
\* stamps the transaction_end of that record and inserts nothing: the record
\* is no longer current, no record with its _id is current, the number of
\* stored records is as it was and the other fields of the record are too.
C7_DeleteCloses ==
    [][ (hasTransactionTime /\ ev'.kind = "delete" /\ ev'.loc # 0)
        =>
          /\ IsCurrent(records[ev'.loc])
          /\ IsHistoric(records'[ev'.loc])
          /\ Len(records'[ev'.loc]) = Len(records[ev'.loc])
          /\ \A i \in 1..Len(records[ev'.loc]) :
                records[ev'.loc][i][1] # "transaction_end"
                    => records'[ev'.loc][i] = records[ev'.loc][i]
          /\ \A k \in Live(records') :
                getField(records'[k], "_id") = getField(records[ev'.loc], "_id")
                    => ~IsCurrent(records'[k])
          /\ Len(records') = Len(records)
          /\ CountAll(records') = CountAll(records)
          /\ CountCurrent(records') < CountCurrent(records)
      ]_vars

\* a delete has closed the only current record
C7_Witness ==
    /\ ev.kind = "delete"
    /\ ev.loc # 0
    /\ IsHistoric(records[ev.loc])
    /\ CountCurrent(records) = 0
    /\ CountAll(records) >= 1

\* C8: wrapObjectId applied to what wrapObjectId returned returns it
\* unchanged, and a document that has _id.transaction_start is returned
\* unchanged whatever start is passed.
C8_WrapIdempotent ==
    /\ fn.op = "rewrap" => fn.out = fn.obj
    /\ (fn.op = "wrapObjectId" /\ HasTransactionStart(fn.obj)) => fn.out = fn.obj

\* a document wrapped with one start and wrapped again with another
C8_Witness ==
    /\ fn.op = "rewrap"
    /\ fn.val # 0
    /\ TransactionStart(fn.obj) # TimestampVal(fn.val \div 1000, fn.inc)
    /\ fn.out = fn.obj

\* C9: for a document d without _id.transaction_start, wrapObjectId returns
\* a document whose _id is {_id: the _id of d or else the generated
\* identifier, transaction_start: the start passed or else the clock's value},
\* whose transaction_end is null and whose other fields are those of d.
C9_WrapShape ==
    (fn.op = "wrapObjectId" /\ ~HasTransactionStart(fn.obj)) =>
        /\ getField(fn.out, "_id") =
              ObjVal(<< <<"_id", IF eoo(getField(fn.obj, "_id")) THEN OIDVal(fn.oid)
                                 ELSE getField(fn.obj, "_id")>>,
                        <<"transaction_start",
                          IF fn.val = 0 /\ fn.inc = 0 THEN TimestampVal(fn.now[1], fn.now[2])
                          ELSE TimestampVal(fn.val \div 1000, fn.inc)>> >>)
        /\ getField(fn.out, "transaction_end") = Null
        /\ FieldNames(fn.out) = FieldNames(fn.obj) \cup {"_id", "transaction_end"}
        /\ Len(fn.out) = Cardinality(FieldNames(fn.out))
        /\ \A i \in 1..Len(fn.obj) :
              fn.obj[i][1] \notin {"_id", "transaction_end"}
                  => getField(fn.out, fn.obj[i][1]) = fn.obj[i][2]

\* a document with its own _id wrapped with a start given
C9_Witness ==
    /\ fn.op = "wrapObjectId"
    /\ fn.obj = <<Id(1), A(0)>>
    /\ fn.val = 1000 /\ fn.inc = 1
    /\ fn.now # <<1, 1>>
    /\ TransactionStart(fn.out) = TimestampVal(1, 1)

\* C10: setTransactionEndTimestamp fails when the document has no
\* transaction_end or one that is not null; else it returns the document with
\* transaction_end set to the clock's value and every other field as it was.
C10_Close ==
    fn.op = "setTransactionEndTimestamp" =>
        IF ~isNull(getField(fn.obj, "transaction_end"))
        THEN IsErr(fn.out)
        ELSE /\ ~IsErr(fn.out)
             /\ Len(fn.out) = Len(fn.obj)
             /\ \A i \in 1..Len(fn.obj) :
                   fn.out[i] = IF fn.obj[i][1] = "transaction_end"
                               THEN <<"transaction_end", TimestampVal(fn.now[1], fn.now[2])>>
                               ELSE fn.obj[i]

\* a historical version handed to setTransactionEndTimestamp is refused
C10_Witness ==
    /\ fn.op = "setTransactionEndTimestamp"
    /\ isTimestamp(getField(fn.obj, "transaction_end"))
    /\ IsErr(fn.out)
    /\ ErrCode(fn.out) = 999147

TransactionOf(query) == getField(query, "transaction")
RestOf(query) == removeField(query, "transaction")

\* C12: every non-error branch of addTemporalCriteria returns a selector
\* that has no top-level transaction key.
C12_NoTransactionKey ==
    fn.op \in {"addTemporalCriteria", "at"} =>
        /\ ~IsErr(fn.out) => ~hasElement(fn.out, "transaction")
        /\ fn.op = "at" /\ ~IsErr(fn.out2) => ~hasElement(fn.out2, "transaction")

C12_Witness ==
    /\ fn.op = "addTemporalCriteria"
    /\ TransactionOf(fn.obj) = ObjVal(<< <<"all", BoolVal(TRUE)>> >>)
    /\ fn.obj[1][1] = "a"
    /\ fn.out = <<A(0)>>

Overlaps(r, a, b) ==
    /\ isNull(a) \/ IsCurrent(r) \/ TsLE(a[2], TransactionEnd(r)[2])
    /\ isNull(b) \/ TsLE(TransactionStart(r)[2], b[2])

\* the bounds of a well-formed transaction: {inrange: [a, b]} alone
IsInrange(query, a, b) ==
    /\ TransactionOf(query) = ObjVal(<< <<"inrange", ArrVal(<<a, b>>)>> >>)
    /\ ~(isNull(a) /\ isNull(b))

\* C14: transaction: {inrange: [a, b]} adds to the selector's other
\* predicates exactly (transaction_end >= a OR transaction_end = null) when
\* a is non-null and transaction_start <= b when b is non-null, and a record
\* matches the rewritten selector iff its interval overlaps [a, b] and it
\* satisfies the other predicates.
C14_Inrange ==
    \A a \in SelTimes, b \in SelTimes :
        fn.op = "addTemporalCriteria" /\ IsInrange(fn.obj, a, b)
        => /\ ~IsErr(fn.out)
           /\ fn.out = addToCondition(addFromCondition(<<>>, a), b) \o RestOf(fn.obj)
           /\ \A r \in SelRecords :
                 MatchesSel(r, fn.out) <=> Overlaps(r, a, b) /\ MatchesSel(r, RestOf(fn.obj))
\* C15: transaction: {at: t} gives the same outcome as transaction:
\* {inrange: [t, t]}, the same selector or an error in both, for every t,
\* null included.
C15_AtIsInrange ==
    fn.op = "at" =>
        IF IsErr(fn.out) \/ IsErr(fn.out2)
        THEN IsErr(fn.out) /\ IsErr(fn.out2)
        ELSE fn.out = fn.out2

\* C16: transaction: {all: true} returns the input selector with the
\* transaction key removed and no predicate added, so it matches current and
\* historical versions alike.
C16_All ==
    fn.op = "addTemporalCriteria"
    /\ TransactionOf(fn.obj) = ObjVal(<< <<"all", BoolVal(TRUE)>> >>)
    => /\ fn.out = RestOf(fn.obj)
       /\ \A r \in SelRecords : MatchesSel(r, fn.out) <=> MatchesSel(r, RestOf(fn.obj))
       /\ RestOf(fn.obj) = <<>> => \A r \in SelRecords : MatchesSel(r, fn.out)

C16_Witness ==
    /\ fn.op = "addTemporalCriteria"
    /\ fn.obj = << <<"transaction", ObjVal(<< <<"all", BoolVal(TRUE)>> >>)>> >>
    /\ fn.out = <<>>
    /\ \E r \in SelRecords : IsCurrent(r) /\ MatchesSel(r, fn.out)
    /\ \E r \in SelRecords : IsHistoric(r) /\ MatchesSel(r, fn.out)
\* the subforms in the order the rewriter is described to try them
SubformOrder == <<"current", "inrange", "at", "all">>

\* the subforms a transaction value holds
Subforms(t) == IF isObject(t) THEN {k \in FieldNames(t[2]) : \E i \in 1..4 : SubformOrder[i] = k}
               ELSE {}

\* the first subform of t in SubformOrder
FirstSubform(t) ==
    SubformOrder[CHOOSE i \in 1..4 :
                    /\ SubformOrder[i] \in Subforms(t)
                    /\ \A j \in 1..(i - 1) : SubformOrder[j] \notin Subforms(t)]

\* the selector with its transaction value cut down to one subform
OnlySubform(query, k) ==
    [i \in 1..Len(query) |->
        IF query[i][1] = "transaction"
        THEN <<"transaction", ObjVal(<< <<k, getField(query[i][2][2], k)>> >>)>>
        ELSE query[i]]

\* C17: when transaction holds more than one subform the branch applied is
\* the first present in the order current, inrange, at, all, so that
\* {at: t, all: true} is rewritten as at: t.
C17_FirstBranchWins ==
    fn.op = "addTemporalCriteria" /\ Cardinality(Subforms(TransactionOf(fn.obj))) > 1
    => fn.out = addTemporalCriteria(OnlySubform(fn.obj, FirstSubform(TransactionOf(fn.obj))))

\* the value of subform k of the selector's transaction value, EOO if absent
SubformOf(query, k) ==
    IF isObject(TransactionOf(query)) THEN getField(TransactionOf(query)[2], k) ELSE EOO

\* the transaction value is ill-formed in one of the ways the rewriter names
Malformed(query) ==
    \/ /\ ~eoo(SubformOf(query, "inrange"))
       /\ \/ ~isArray(SubformOf(query, "inrange"))
          \/ Len(SubformOf(query, "inrange")[2]) # 2
          \/ \A i \in 1..2 : isNull(SubformOf(query, "inrange")[2][i])
    \/ ~eoo(SubformOf(query, "current")) /\ ~isTrue(SubformOf(query, "current"))
    \/ ~eoo(SubformOf(query, "all")) /\ ~isTrue(SubformOf(query, "all"))
    \/ Subforms(TransactionOf(query)) = {}

\* C18 as stated: addTemporalCriteria raises whenever the transaction value
\* holds an ill-formed inrange, a current or all other than true, or no
\* subform at all.
C18_ErrorsAnySubform ==
    fn.op = "addTemporalCriteria" /\ hasElement(fn.obj, "transaction") /\ Malformed(fn.obj)
    => IsErr(fn.out)

\* C18: for a transaction value that holds at most one subform,
\* addTemporalCriteria raises when inrange is not an array (1234000), has
\* not exactly two elements (1234001) or has two nulls (1234002), when
\* current (999150) or all (999151) is not the boolean true, and when no
\* subform is present (999152).
C18_Errors ==
    fn.op = "addTemporalCriteria" /\ hasElement(fn.obj, "transaction")
    /\ Cardinality(Subforms(TransactionOf(fn.obj))) <= 1 /\ Malformed(fn.obj)
    => /\ IsErr(fn.out)
       /\ ErrCode(fn.out) =
            IF Subforms(TransactionOf(fn.obj)) = {} THEN 999152
            ELSE IF ~eoo(SubformOf(fn.obj, "current")) THEN 999150
            ELSE IF ~eoo(SubformOf(fn.obj, "all")) THEN 999151
            ELSE IF ~isArray(SubformOf(fn.obj, "inrange")) THEN 1234000
            ELSE IF Len(SubformOf(fn.obj, "inrange")[2]) # 2 THEN 1234001
            ELSE 1234002

C18_Witness ==
    /\ fn.op = "addTemporalCriteria"
    /\ SubformOf(fn.obj, "inrange") = ArrVal(<<TimestampVal(1, 1)>>)
    /\ IsErr(fn.out) /\ ErrCode(fn.out) = 1234001
\* the selector pins transaction_end to a value other than null
Pinned(pattern) ==
    ~eoo(getField(pattern, "transaction_end")) /\ ~isNull(getField(pattern, "transaction_end"))

\* C19: addCurrentVersionCriterion raises for every selector whose
\* transaction_end is present and not null, and otherwise returns the
\* selector with transaction_end: null; an update of a versioned collection
\* whose selector pins transaction_end fails with that error before any
\* record is matched or changed.
C19_PinnedRefused ==
    /\ \A q \in SelRests \cup Patterns :
          IF Pinned(q)
          THEN IsErr(addCurrentVersionCriterion(q))
               /\ ErrCode(addCurrentVersionCriterion(q)) = 999145
          ELSE addCurrentVersionCriterion(q)
                  = << <<"transaction_end", Null>> >> \o removeField(q, "transaction_end")
    /\ hasTransactionTime /\ upd.pc = "idle" =>
          \A pattern \in {q \in Patterns : Pinned(q)}, updateobj \in UpdateObjs,
             upsert \in BOOLEAN, multi \in BOOLEAN, moved \in BOOLEAN :
              With(Finish(updateObjectsHead(pattern, updateobj, upsert, multi, TRUE, moved)),
                   LAMBDA o : /\ o.res = Thrown(999145)
                              /\ o.records = records
                              /\ o.upd = IdleUpd)

\* a selector that pins the transaction_end of a stored historical record
\* has been refused
C19_Witness ==
    /\ res = Thrown(999145)
    /\ \E j \in Live(records) :
          /\ IsHistoric(records[j])
          /\ Matches(records[j], << <<"transaction_end", TimestampVal(1, 1)>> >>)

\* C20: addTemporalOrder replaces a sort key named transaction by
\* transaction_end with the same direction at the same position, leaves
\* every other key unchanged and returns no transaction key; applied to its
\* own result it changes nothing.
C20_Order ==
    /\ fn.op = "addTemporalOrder" =>
          /\ Len(fn.out) = Len(fn.obj)
          /\ \A i \in 1..Len(fn.obj) :
                fn.out[i] = IF fn.obj[i][1] = "transaction"
                            THEN <<"transaction_end", fn.obj[i][2]>>
                            ELSE fn.obj[i]
          /\ ~hasElement(fn.out, "transaction")
    /\ fn.op = "reorder" => fn.out = fn.obj

C20_Witness ==
    /\ fn.op = "reorder"
    /\ fn.orig = << <<"a", NumberInt(1)>>, <<"transaction", NumberInt(-1)>> >>
    /\ fn.obj = << <<"a", NumberInt(1)>>, <<"transaction_end", NumberInt(-1)>> >>
    /\ fn.out = fn.obj
\* the key of an index specification
KeyOf(idx) == getObjectField(idx, "key")

\* the key the index rewriter is described to produce
ExpectedKey(key) ==
    IF hasElement(key, "transaction_end") THEN key
    ELSE IF getField(key, "transaction") = NumberInt(0) THEN removeField(key, "transaction")
    ELSE IF ~eoo(getField(key, "transaction")) /\ isNumber(getField(key, "transaction"))
    THEN renameField(key, "transaction", "transaction_end")
    ELSE << <<"transaction_end", NumberInt(1)>> >> \o key

\* C21: modifyTransactionTimeIndex returns the spec unchanged when key holds
\* transaction_end, removes the transaction entry when its value is 0,
\* renames it to transaction_end with the same direction when its value is
\* another number, and in every other case prepends transaction_end: 1; the
\* fields of the spec other than key are unchanged.
C21_IndexCases ==
    fn.op = "modifyTransactionTimeIndex" =>
        /\ ~IsErr(fn.out)
        /\ fn.out = replaceField(fn.obj, "key", ObjVal(ExpectedKey(KeyOf(fn.obj))))

\* C22: when modifyTransactionTimeIndex succeeds the first entry of the
\* resulting key is transaction_end unless the input key held transaction: 0,
\* wherever transaction or transaction_end stands in the input key.
C22_FirstIsTransactionEnd ==
    fn.op = "modifyTransactionTimeIndex" /\ ~IsErr(fn.out)
    /\ getField(KeyOf(fn.obj), "transaction") # NumberInt(0)
    => KeyOf(fn.out) # <<>> /\ KeyOf(fn.out)[1][1] = "transaction_end"
\* C23: the selector an update of a versioned collection opens its cursor
\* with contains transaction_end: null, and every record the update closes is
\* current, its stored transaction_end null, at the moment it is closed.
C23_CursorOverCurrent ==
    [][ hasTransactionTime =>
          /\ upd'.pc = "loop" => getField(upd'.patternOrig, "transaction_end") = Null
          /\ ev'.kind \in {"update", "closed"} =>
                /\ getField(records[ev'.loc], "transaction_end") = Null
                /\ isTimestamp(getField(records'[ev'.newLoc], "transaction_end")) ]_vars

C23_Witness ==
    /\ hasTransactionTime
    /\ upd.pc = "loop"
    /\ upd.patternOrig = << <<"transaction_end", Null>> >>
    /\ ev.kind = "update"
    /\ IsHistoric(records[ev.newLoc])
    /\ IsCurrent(records[Len(records)])
\* C24: with logging enabled a committed close-and-succeed of a versioned
\* collection appends exactly two oplog entries: an update (op u) addressed
\* by the predecessor's composite _id that sets transaction_end, and an
\* insert (op i) that carries the new record.
C24_TwoLogEntries ==
    hasTransactionTime /\ ev.kind = "update" =>
        /\ Len(ev.log) = 2
        /\ ev.log[1].op = "u"
        /\ ev.log[1].o2 = << <<"_id", getField(records[ev.newLoc], "_id")>> >>
        /\ ev.log[1].o = << <<"$set", ObjVal(<< <<"transaction_end",
                                                  TransactionEnd(records[ev.newLoc])>> >>)>> >>
        /\ ev.log[2].op = "i"
        /\ ev.log[2].o = records[Len(records)]
\* C25: during one multi-update of a versioned collection the location of a
\* successor the operation has inserted is never processed by the same
\* operation: after a pass that closed a record and inserted its successor
\* (at the last location), the record the cursor stops at next is not that
\* successor.
C25_SuccessorNotRevisited ==
    hasTransactionTime /\ upd.pc = "loop" /\ upd.multi /\ ev.kind = "update"
    => scanTo(upd) # Len(records)
\* C26: no update of a versioned collection goes through _updateById or
\* applies modifiers in place: for every selector, a simple _id equality
\* included, the cursor-driven path is used, and the user fields of the
\* matched record are as they were when the update has closed it.
C26_NoFastPathNoInPlace ==
    [][ hasTransactionTime =>
          /\ \A pattern \in Patterns \cup MultiPatterns, multi \in BOOLEAN :
                /\ ~useIdHack(pattern, multi)
                /\ ~IsErr(addCurrentVersionCriterion(pattern))
                      => ~useIdHack(addCurrentVersionCriterion(pattern), multi)
          /\ ev'.kind # "inplace"
          /\ ev'.kind \in {"update", "closed"} =>
                removeField(records'[ev'.newLoc], "transaction_end")
                    = removeField(records[ev'.loc], "transaction_end") ]_vars

C26_Witness ==
    /\ hasTransactionTime
    /\ ev.kind = "update"
    /\ res = UpdateResult(TRUE, TRUE, 1)
    /\ getField(records[ev.newLoc], "a") = NumberInt(0)
    /\ getField(records[Len(records)], "a") = NumberInt(1)
\* no stored record matches the selector as the update normalises it
NoMatch(pattern) ==
    \A j \in Live(records) : ~Matches(records[j], addCurrentVersionCriterion(pattern))

\* the document is in version shape and current
VersionShape(doc) ==
    /\ isObject(getField(doc, "_id"))
    /\ ~eoo(UserId(doc))
    /\ isTimestamp(TransactionStart(doc))
    /\ TransactionEnd(doc) = Null

\* the document carries the equality predicates of the selector, _id as its
\* user id
CarriesQuery(doc, pattern) ==
    \A i \in 1..Len(pattern) :
        ~isObject(pattern[i][2]) =>
            IF pattern[i][1] = "_id" THEN UserId(doc) = pattern[i][2]
            ELSE lookup(doc, pattern[i][1]) = pattern[i][2]

\* the document carries the user fields of the replacement, or the fields
\* the modifiers make of nothing
CarriesUpdate(doc, updateobj) ==
    LET want == IF isOperator(updateobj) THEN createNewFromMods(<<>>, updateobj)
                ELSE updateobj
    IN \A i \in 1..Len(want) :
          want[i][1] \notin {"_id", "transaction_end"} => getField(doc, want[i][1]) = want[i][2]

\* C27: when an upsert of a versioned collection matches no record, exactly
\* one record is inserted, in version shape (composite _id with
\* transaction_start, transaction_end null), carrying the fields derived from
\* the query predicates plus the replacement or the modifier-derived fields,
\* and no existing record is changed.
C27_Upsert ==
    hasTransactionTime /\ upd.pc = "idle" =>
        \A pattern \in {q \in Patterns : ~Pinned(q)}, updateobj \in UpdateObjs,
           multi \in BOOLEAN, moved \in BOOLEAN :
            NoMatch(pattern) /\ (multi => isOperator(updateobj)) =>
                With(Finish(updateObjectsHead(pattern, updateobj, TRUE, multi, TRUE, moved)),
                     LAMBDA o : o.ok =>
                        /\ Len(o.records) = Len(records) + 1
                        /\ SubSeq(o.records, 1, Len(records)) = records
                        /\ VersionShape(o.records[Len(o.records)])
                        /\ CarriesQuery(o.records[Len(o.records)], pattern)
                        /\ CarriesUpdate(o.records[Len(o.records)], updateobj))
\* C28: an update with multi = true whose update document has no modifiers
\* is rejected with "multi update only works with $ operators", with 10158
\* when a record matches and with 10159 when nothing matches and upsert is
\* requested, and no record is inserted or modified.
C28_MultiNeedsOperators ==
    upd.pc = "idle" =>
        \A pattern \in {q \in Patterns : ~Pinned(q)}, updateobj \in Replacements,
           upsert \in BOOLEAN, moved \in BOOLEAN :
            With(Finish(updateObjectsHead(pattern, updateobj, upsert, TRUE, TRUE, moved)),
                 LAMBDA o :
                    /\ o.records = records
                    /\ ~NoMatch(pattern) => o.res = Thrown(10158)
                    /\ NoMatch(pattern) /\ upsert => o.res = Thrown(10159))

C28_Witness ==
    /\ res = Thrown(10158)
    /\ upd.pc = "idle"
    /\ ~NoMatch(<<>>)
    /\ ev.kind = "none"
\* a replacement document that holds a modifier behind a plain field
MixedReplacement == <<A(MaxA + 1), <<"$inc", ObjVal(<<A(1)>>)>> >>

\* the codes of malformed-query, invariant-violation, invalid-op and too-large
AbortCodes == {999145, 999146, 999147, 999150, 999151, 999152, 10154, 10158, 10159, 12522}

\* C29: when an update of a versioned collection fails with malformed-query,
\* invariant-violation, invalid-op or too-large, the stored records are those
\* before the operation; in particular the predecessor has not been closed
\* when the check of the successor fails.
C29_FailedUpdateChangesNothing ==
    hasTransactionTime =>
        /\ upd.pc = "idle" =>
              \A pattern \in Patterns, updateobj \in UpdateObjs \cup {MixedReplacement},
                 upsert \in BOOLEAN, multi \in BOOLEAN, moved \in BOOLEAN :
                  With(Finish(updateObjectsHead(pattern, updateobj, upsert, multi, TRUE, moved)),
                       LAMBDA o : o.ok /\ o.res.err \in AbortCodes => o.records = records)
        /\ upd.pc = "loop" =>
              \A moved \in BOOLEAN :
                  With(Finish(LoopBody(upd, moved)),
                       LAMBDA o : o.ok /\ o.res.err \in AbortCodes => o.records = records)
\* C30: within one logical update of a versioned collection the close is
\* persisted, then the successor is inserted, then the oplog entry is
\* emitted, all in one pass of the loop with no yield in between: another
\* client runs only while the update stands at the top of the loop, and a
\* record closed without a successor is left only by an update that an error
\* has ended, before anything is logged.
C30_CloseInsertLog ==
    [][ hasTransactionTime =>
          /\ ev'.kind = "update" =>
                /\ IsCurrent(records[ev'.loc])
                /\ IsHistoric(records'[ev'.newLoc])
                /\ ev'.newLoc < Len(records')
                /\ Len(records') = Len(records) + (IF ev'.newLoc = ev'.loc THEN 1 ELSE 2)
                /\ IsCurrent(records'[Len(records')])
                /\ UserId(records'[Len(records')]) = UserId(records[ev'.loc])
                /\ Len(ev'.log) = 1
          /\ ev'.kind = "closed" =>
                /\ upd'.pc = "idle"
                /\ res'.err # 0
                /\ ev'.log = <<>>
          /\ upd.pc = "loop" /\ ev'.kind \in {"insert", "delete", "remove"} =>
                /\ upd' = upd
                /\ upd.nscanned > 0 ]_vars

C30_Witness ==
    /\ hasTransactionTime
    /\ ev.kind = "update"
    /\ ev.newLoc = ev.loc + 1
    /\ Len(records) = ev.newLoc + 1
    /\ IsHistoric(records[ev.newLoc])
    /\ IsCurrent(records[Len(records)])
    /\ Len(ev.log) = 1

\* C38: for every selector on which they succeed, addTemporalCriteria and
\* addCurrentVersionCriterion keep every top-level predicate of the input
\* other than transaction in the output with its value unchanged, a
\* user-supplied top-level $or included when transaction is inrange or at
\* with a non-null lower bound.
C38_KeepsPredicates ==
    fn.op \in {"addTemporalCriteria", "at"} /\ ~IsErr(fn.out)
    => \A i \in 1..Len(fn.obj) :
          fn.obj[i][1] # "transaction"
          => \E j \in 1..Len(fn.out) : fn.out[j] = fn.obj[i]


\* C39: modifyTransactionTimeIndex is idempotent: for every index
\* specification on which it succeeds, applying it to its own output returns
\* that output unchanged, specifications that opt out with transaction: 0
\* included.
C39_IndexIdempotent ==
    fn.op = "remodify" => fn.out = fn.obj


\* values an expiry field holds, in either encoding
TTLValues ==
    {DateVal(ms) : ms \in {0, 999, 1000, 2500}}
    \cup {TimestampVal(s, i) : s \in 0..3, i \in 0..1}

\* a value older than ttl seconds at that reading of the clock
TTLOlder(v, ttl, nowMillis) ==
    IF isTimestamp(v) THEN v[2][1] < (nowMillis \div 1000) - ttl
    ELSE v[2] < nowMillis - 1000 * ttl

\* the matcher on one disjunct {field: {$lt: Date}} or {field: {$tlt:
\* Timestamp}}: $lt compares Dates, $tlt compares Timestamps by their seconds
TTLMatchPred(v, f) ==
    LET cmp == f[2][2][1]
    IN IF cmp[1] = "$tlt"
       THEN isTimestamp(v) /\ isTimestamp(cmp[2]) /\ v[2][1] < cmp[2][2][1]
       ELSE v[1] = "date" /\ cmp[2][1] = "date" /\ v[2] < cmp[2][2]

TTLMatches(v, q) ==
    \E c \in 1..Len(q[1][2][2]) : TTLMatchPred(v, q[1][2][2][c][2][1])

\* C32: getTTLQuery(field, ttl) returns a document whose only key is $or with
\* exactly two disjuncts, the first {field: {$lt: Date(now_ms - 1000 * ttl)}}
\* and the second {field: {$tlt: Timestamp(now_s - ttl)}} in second
\* granularity, and a value of either encoding older than ttl seconds matches.
C32_TTLQuery ==
    fn.op = "getTTLQuery"
    => /\ fn.out =
            << <<"$or",
                 ArrVal(<< ObjVal(<< <<fn.field,
                                       ObjVal(<< <<"$lt",
                                                   DateVal(fn.nowMillis - 1000 * fn.ttl)>> >>)>> >>),
                           ObjVal(<< <<fn.field,
                                       ObjVal(<< <<"$tlt",
                                                   TimestampVal(fn.nowSecs - fn.ttl, 0)>> >>)>> >>)
                        >>)>> >>
       /\ \A v \in TTLValues : TTLOlder(v, fn.ttl, fn.nowMillis) => TTLMatches(v, fn.out)


\* the timestamps a selector can ask for
AtTimes == {TimestampVal(s, i) : s \in 1..MaxSec, i \in 0..MaxInc}

\* the rewritten selector for {transaction: {at: t}}
AtSelector(t) == addTemporalCriteria(<< <<"transaction", ObjVal(<< <<"at", t>> >>)>> >>)

\* t lies in the half-open interval [transaction_start, transaction_end) of
\* the version, an open transaction_end being later than every t
InInterval(doc, t) ==
    /\ isTimestamp(TransactionStart(doc))
    /\ TsLE(TransactionStart(doc)[2], t[2])
    /\ IsCurrent(doc) \/ (IsHistoric(doc) /\ TsLE(t[2], TransactionEnd(doc)[2])
                                            /\ t # TransactionEnd(doc))

\* C34: for every timestamp t and every user id, the rewritten selector for
\* {transaction: {at: t}} matches exactly the version of that id whose
\* half-open interval [transaction_start, transaction_end) contains t, hence
\* at most one version per id, also when t is the timestamp at which one
\* version was closed and its successor started.
C34_AtHalfOpen ==
    hasTransactionTime =>
        \A t \in AtTimes :
            /\ \A j \in Live(records) :
                  MatchesSel(records[j], AtSelector(t)) <=> InInterval(records[j], t)
            /\ \A j, k \in Live(records) :
                  /\ MatchesSel(records[j], AtSelector(t))
                  /\ MatchesSel(records[k], AtSelector(t))
                  /\ UserId(records[j]) = UserId(records[k])
                  => j = k


\* the timestamps the clock has issued so far
Issued ==
    {TimestampVal(s, i) : s \in 1..last[1], i \in 1..MaxInc}
    \ {TimestampVal(last[1], i) : i \in (last[2] + 1)..MaxInc}

\* the rewritten selector for {transaction: {all: true}}
AllSelector == addTemporalCriteria(<< <<"transaction", ObjVal(<< <<"all", BoolVal(TRUE)>> >>)>> >>)

\* C33: in every reachable state of a versioned collection the set of records
\* matched by the rewritten selector for {transaction: {all: true}} equals the
\* union, over all timestamps t the clock has issued so far, of the sets
\* matched by the rewritten selector for {transaction: {at: t}}.
C33_AllIsUnionOfAt ==
    hasTransactionTime =>
        {j \in Live(records) : MatchesSel(records[j], AllSelector)}
        = UNION {{j \in Live(records) : MatchesSel(records[j], AtSelector(t))} : t \in Issued}


\* the value of a versioning field of record r, a composite _id or a
\* transaction_end, is one the client sent or one a stored record had
FromClient(r, pattern, updateobj) ==
    \A name \in {"_id", "transaction_end"} :
        (IF name = "_id" THEN isObject(getField(r, name)) ELSE ~eoo(getField(r, name)))
        => \E s \in {pattern, updateobj} \cup {records[k] : k \in Live(records)} :
              getField(s, name) = getField(r, name)

\* what C31 states of the outcome o of a step of update(pattern, updateobj)
PlainOutcome(o, pattern, updateobj) ==
    o.ok =>
        /\ o.res.err # 999145
        /\ o.upd.pc = "loop" => o.upd.patternOrig = pattern
        /\ o.ev.kind \notin {"update", "closed"}
        /\ o.ev.kind = "inplace" =>
              /\ Matches(records[o.ev.loc], pattern)
              /\ Cardinality(Live(o.records)) = Cardinality(Live(records))
              /\ getField(o.records[o.ev.newLoc], "_id") = getField(records[o.ev.loc], "_id")
              /\ \A k \in Live(records) \ {o.ev.loc} : o.records[k] = records[k]
        /\ \A j \in Live(o.records) : FromClient(o.records[j], pattern, updateobj)

\* C31: for a collection whose versioning flag is false an update applies
\* none of the versioning steps: the selector is not extended with
\* transaction_end: null, the matched record is modified in place so the
\* record count is unchanged, and no composite _id or transaction_end field
\* is added to any record.
C31_PlainUpdate ==
    ~hasTransactionTime =>
        /\ upd.pc = "idle" =>
              \A pattern \in Patterns, updateobj \in UpdateObjs,
                 upsert \in BOOLEAN, multi \in BOOLEAN, moved \in BOOLEAN :
                  With(Finish(updateObjectsHead(pattern, updateobj, upsert, multi, TRUE, moved)),
                       LAMBDA o : PlainOutcome(o, pattern, updateobj))
        /\ upd.pc = "loop" =>
              \A moved \in BOOLEAN :
                  With(Finish(LoopBody(upd, moved)),
                       LAMBDA o : PlainOutcome(o, upd.patternOrig, upd.updateobj))
        /\ ev.kind \notin {"update", "closed", "delete"}

C31_Witness ==
    /\ ~hasTransactionTime
    /\ ev.kind = "inplace"
    /\ upd.pc = "loop"
    /\ upd.numModded = 1
    /\ Len(ev.log) = 1
    /\ \E j \in Live(records) : getField(records[j], "a") = NumberInt(1)
    /\ \A j \in Live(records) : eoo(getField(records[j], "transaction_end"))


C40_UpsertOnlyWithoutMatch ==
    [][ hasTransactionTime /\ upd.pc = "loop" /\ upd.upsert
        /\ ev'.kind = "upsert" /\ res'.err = 0
        => /\ Remaining(upd) = {}
           /\ \A j \in Live(records) : ~Matches(records[j], upd.patternOrig) ]_vars


\* C37 as stated: after every yield that released the lock, every following
\* mutation of the same multi-update uses collection and transient-metadata
\* handles fetched after that yield, the loop stops without further mutation
\* when the collection no longer exists, and modsIsIndexed reflects the index
\* keys read after the yield; no mutation uses a handle obtained before the
\* last yield.
C37_FreshAfterYield ==
    [][ hasTransactionTime /\ upd.pc = "loop" /\ upd.multi
        => /\ ev'.kind = "update" =>
                 /\ ev'.yields = upd.yields
                 /\ ev'.d = ev'.yields
                 /\ ev'.nsdt = ev'.yields
                 /\ upd.released =>
                       ev'.modsIsIndexed = isIndexed(upd.updateobj, meta.indexKeys)
           /\ upd.released /\ ~meta.exists /\ upd' # upd =>
                 /\ upd'.pc = "idle"
                 /\ ev'.kind \notin {"update", "closed"}
                 /\ \A j \in Live(records) : records'[j] = records[j] ]_vars

\* C37: after every yield that released the lock, every following mutation
\* of the same multi-update uses collection and transient-metadata handles
\* fetched after that yield, and the loop stops without further mutation when
\* the collection no longer exists; modsIsIndexed is true when it was true
\* before the yield or when the index keys read after the yield cover a
\* modified field, the keys being read again only while it is false.
C37_HandlesRefetched ==
    [][ hasTransactionTime /\ upd.pc = "loop" /\ upd.multi
        => /\ ev'.kind = "update" =>
                 /\ ev'.yields = upd.yields
                 /\ ev'.d = ev'.yields
                 /\ ev'.nsdt = ev'.yields
                 /\ upd.released =>
                       ev'.modsIsIndexed
                          = (upd.modsIsIndexed \/ isIndexed(upd.updateobj, meta.indexKeys))
           /\ upd.released /\ ~meta.exists /\ upd' # upd =>
                 /\ upd'.pc = "idle"
                 /\ ev'.kind \notin {"update", "closed"}
                 /\ \A j \in Live(records) : records'[j] = records[j] ]_vars

C37_Witness ==
    /\ hasTransactionTime /\ meta.exists
    /\ ev.kind = "update"
    /\ ev.yields = 1
    /\ ev.d = 1 /\ ev.nsdt = 1
    /\ ev.modsIsIndexed
    /\ meta.indexKeys = {}


\* C36: a multi-update with operator modifiers on a versioned collection
\* terminates after processing each initially matching current record once,
\* also when every successor it inserts matches the selector: of the records
\* the cursor has still to stop at, none is a successor the operation
\* inserted itself, so the work left never grows by the operation's own
\* doing.
C36_EachInitialOnce ==
    hasTransactionTime /\ upd.pc = "loop" /\ upd.multi /\ isOperator(upd.updateobj)
    => Remaining(upd) \cap upd.inserted = {}

====
